---------------------------- MODULE Spec2Model ----------------------------
(***************************************************************************)
(* A model of wfo-parser: the Wavefront-OBJ compiler (src/compiler.rs),    *)
(* its vertex model (src/vertex.rs), its statement payloads                *)
(* (src/statement.rs) and the per-object vertex store (src/object3d.rs).   *)
(*                                                                         *)
(* Rust values are modelled as follows.                                    *)
(*   Option<T>      None is <<>>, Some(x) is <<x>>                         *)
(*   Result<T, E>   a record [kind, val, msg] with kind "Ok" or "Err";     *)
(*                  a panic (panic!, Option::expect, Result::expect) is    *)
(*                  the third kind "Panic": the call does not return       *)
(*   Float          NotNan<f64> values, drawn from a few integers          *)
(*   Vec<T>         a sequence; Rust position i is TLA+ position i + 1     *)
(***************************************************************************)
EXTENDS Integers, Naturals, Sequences, FiniteSets, TLC

VARIABLES
    \* Compiler (src/compiler.rs:6-12) and the locals of Compiler::compile
    cur_obj,            \* Option<Object3d>
    position_buffer,    \* Vec<(Float, Float, Float)>
    normal_buffer,      \* Vec<(Float, Float, Float)>
    tex_coord_buffer,   \* Vec<(Float, Float)>
    results,            \* compile's local `results`
    ret,                \* what compile returned, or that it is still in its loop
    n_stmt,             \* statements consumed by the for loop so far
    \* history of the input consumed so far (not read by the program)
    stmt,               \* Option<Statement>: the statement handled last
    seen_v,             \* payloads of the well-formed VERTEX statements handled
    seen_vn,            \* payloads of the well-formed NORMAL statements handled
    seen_vt,            \* payloads of the well-formed TEXCOORD statements handled
    seen_objects,       \* one entry per object the input starts, in order
    \* a single Object3d driven directly through add_vertex (src/object3d.rs)
    obj,                \* the Object3d
    new_vertex,         \* Option<VertexData>: the argument of the last call
    add_result,         \* Option<Result>: what the last call returned
    n_calls,            \* add_vertex calls made so far
    \* Lexer (src/lexer.rs:17-22) and the locals of Lexer::lex_tokens
    char_buffer,        \* String, as the sequence of its characters
    char_position,      \* u64
    line_number,        \* u64
    state,              \* LexerState
    lexed_tokens,       \* lex_tokens' local `lexed_tokens`
    lex_ret,            \* what lex_tokens returned, or that it is in its loop
    overflow_checks,    \* whether the build checks integer overflow
    stream_read,        \* history: the characters read from the stream
    \* VertexFormat::from_indices called directly (src/vertex.rs:13-21)
    indices,            \* Option<(u64, u64, u64)>: the argument of the last call
    inferred,           \* Option: the VertexFormat returned, or "Panic"
    \* a source text taken through lex_tokens, parse_tokens and compile
    face,               \* history: the three references of the text's face
    absent_as_empty,    \* history: an absent index is written "" and not "0"
    source,             \* the text, as the sequence of its characters
    lexed,              \* Option<Result>: what lex_tokens returned
    parsed,             \* Option<Result>: what parse_tokens returned
    compiled,           \* Option<Result>: what compile returned
    \* Parser (src/parser.rs:4-13) and the locals of Parser::parse_tokens
    parser,             \* the Parser, as the record of its fields
    parsed_statements,  \* parse_tokens' local `parsed_statements`
    parse_ret,          \* what parse_tokens returned, or that it is in its loop
    tokens_read,        \* history: the tokens the for loop has taken
    \* one Compiler on which compile is called twice (src/compiler.rs:25)
    compiler,           \* the Compiler, as the record of its fields
    first_call,         \* Option: the list of the first call and its Result
    second_call         \* Option: the list of the second call and its Result

compiler_vars == <<cur_obj, position_buffer, normal_buffer, tex_coord_buffer,
                   results, ret, n_stmt>>
history_vars == <<stmt, seen_v, seen_vn, seen_vt, seen_objects>>
object_vars == <<obj, new_vertex, add_result, n_calls>>
lexer_vars == <<char_buffer, char_position, line_number, state, lexed_tokens,
                lex_ret, overflow_checks, stream_read>>
format_vars == <<indices, inferred>>
pipeline_vars == <<face, absent_as_empty, source, lexed, parsed, compiled>>
parser_vars == <<parser, parsed_statements, parse_ret, tokens_read>>
reuse_vars == <<compiler, first_call, second_call>>
vars == <<compiler_vars, history_vars, object_vars, lexer_vars, format_vars,
          pipeline_vars, parser_vars, reuse_vars>>

\* what a step of one component leaves alone
outside_compiler == <<object_vars, lexer_vars, format_vars, pipeline_vars,
                      parser_vars, reuse_vars>>
outside_object == <<compiler_vars, history_vars, lexer_vars, format_vars,
                    pipeline_vars, parser_vars, reuse_vars>>
outside_lexer == <<compiler_vars, history_vars, object_vars, format_vars,
                   pipeline_vars, parser_vars, reuse_vars>>
outside_format == <<compiler_vars, history_vars, object_vars, lexer_vars,
                    pipeline_vars, parser_vars, reuse_vars>>
outside_pipeline == <<compiler_vars, history_vars, object_vars, lexer_vars,
                      format_vars, parser_vars, reuse_vars>>
outside_parser == <<compiler_vars, history_vars, object_vars, lexer_vars,
                    format_vars, pipeline_vars, reuse_vars>>
outside_reuse == <<compiler_vars, history_vars, object_vars, lexer_vars,
                   format_vars, pipeline_vars, parser_vars>>

---------------------------------------------------------------------------
(* Bounds and input domains *)

\* longest statement list handed to compile
MaxStatements == 4
\* most add_vertex calls made on the directly driven object
MaxCalls == 5
\* largest index handed to VertexFormat::from_indices
MaxIndex == 4
\* normals and texcoords declared by the source text of a face
MaxRef == 2
\* longest stream handed to lex_tokens
MaxInput == 5
\* longest stream of line endings handed to lex_tokens
MaxLineEndings == 11
\* the longest text drawn character by character
MaxRun == 4
\* the longest token list given to parse_tokens
MaxTokens == 8
\* the longest statement list given to a Compiler that is used twice
MaxList == 2

PosVals == {<<-1, 0, -1>>, <<1, 0, 1>>}
NormVals == {<<0, 0, 1>>}
TexVals == {<<0, 1>>}
Names == {"a", "b"}
DefaultName == "test.obj"
\* the references (position, texcoord, normal) a face may hold, in the source
\* order of FacePTN: each of the four layouts, a second position, and a
\* reference without position
Refs == {<<1, 0, 0>>, <<2, 0, 0>>, <<1, 0, 1>>, <<1, 1, 0>>, <<1, 1, 1>>,
         <<0, 0, 0>>}

---------------------------------------------------------------------------
(* Option and Result *)

None == <<>>
Some(x) == <<x>>
IsSome(o) == Len(o) = 1
IsNone(o) == Len(o) = 0
Unwrap(o) == o[1]

Ok(v) == [kind |-> "Ok", val |-> v, msg |-> ""]
Err(m) == [kind |-> "Err", val |-> <<>>, msg |-> m]
Panic(m) == [kind |-> "Panic", val |-> <<>>, msg |-> m]

\* VecGet with the index taken as it stands in the face (1-based)
VecGet_one_based(buffer, i) ==
    IF 0 <= i + 1 /\ i + 1 < Len(buffer) THEN Some(buffer[i + 2]) ELSE None

\* Vec::get(i) with a 0-based i
VecGet(buffer, i) ==
    IF 0 <= i /\ i < Len(buffer) THEN Some(buffer[i + 1]) ELSE None

---------------------------------------------------------------------------
(* src/vertex.rs *)

VertexFormats == {"Unknown", "VertexP", "VertexPN", "VertexPT", "VertexPNT"}

\* from_indices reading the second component as the normal index and the
\* third as the texcoord index
VertexFormat_from_indices_normal_second(index_triple) ==
    IF index_triple[1] = 0 THEN "Panic"
    ELSE IF index_triple[2] = 0 /\ index_triple[3] = 0 THEN "VertexP"
    ELSE IF index_triple[3] = 0 THEN "VertexPN"
    ELSE IF index_triple[2] = 0 THEN "VertexPT"
    ELSE "VertexPNT"

\* VertexFormat::from_indices: the match arms in their order; "Panic" is panic!
VertexFormat_from_indices(index_triple) ==
    IF index_triple[1] = 0 THEN "Panic"
    ELSE IF index_triple[2] = 0 /\ index_triple[3] = 0 THEN "VertexP"
    ELSE IF index_triple[3] = 0 THEN "VertexPT"
    ELSE IF index_triple[2] = 0 THEN "VertexPN"
    ELSE "VertexPNT"

\* VertexDataIndex::from_indices
VertexDataIndex_from_indices(index_triple) ==
    [format |-> VertexFormat_from_indices(index_triple),
     pos |-> index_triple[1],
     normal |-> index_triple[3],
     tex_coord |-> index_triple[2]]

vertex_p_from_floats(p) ==
    [format |-> "VertexP", pos |-> p, normal |-> None, tex_coord |-> None]
vertex_pn_from_floats(p, n) ==
    [format |-> "VertexPN", pos |-> p, normal |-> Some(n), tex_coord |-> None]
vertex_pt_from_floats(p, t) ==
    [format |-> "VertexPT", pos |-> p, normal |-> None, tex_coord |-> Some(t)]
vertex_pnt_from_floats(p, n, t) ==
    [format |-> "VertexPNT", pos |-> p, normal |-> Some(n), tex_coord |-> Some(t)]

compile_vertex_p(index, pos_buf) ==
    LET position == VecGet(pos_buf, index.pos - 1) IN
    IF IsNone(position) THEN Err("Bad position index")
    ELSE Ok([format |-> "VertexP", pos |-> Unwrap(position),
             normal |-> None, tex_coord |-> None])

compile_vertex_pn(index, pos_buf, norm_buf) ==
    LET position == VecGet(pos_buf, index.pos - 1)
        normal == VecGet(norm_buf, index.normal - 1) IN
    IF IsNone(position) THEN Err("Bad position index")
    ELSE IF IsNone(normal) THEN Err("Bad normal index")
    ELSE Ok([format |-> "VertexPN", pos |-> Unwrap(position),
             normal |-> normal, tex_coord |-> None])

compile_vertex_pt(index, pos_buf, tex_buf) ==
    LET position == VecGet(pos_buf, index.pos - 1)
        tex_coord == VecGet(tex_buf, index.tex_coord - 1) IN
    IF IsNone(position) THEN Err("Bad position index")
    ELSE IF IsNone(tex_coord) THEN Err("Bad texture coordinate index")
    ELSE Ok([format |-> "VertexPT", pos |-> Unwrap(position),
             normal |-> None, tex_coord |-> tex_coord])

compile_vertex_pnt(index, pos_buf, norm_buf, tex_buf) ==
    LET position == VecGet(pos_buf, index.pos - 1)
        normal == VecGet(norm_buf, index.normal - 1)
        tex_coord == VecGet(tex_buf, index.tex_coord - 1) IN
    IF IsNone(position) THEN Err("Bad position index")
    ELSE IF IsNone(normal) THEN Err("Bad normal index")
    ELSE IF IsNone(tex_coord) THEN Err("Bad texture coordinate index")
    ELSE Ok([format |-> "VertexPNT", pos |-> Unwrap(position),
             normal |-> normal, tex_coord |-> tex_coord])

\* VertexData::compile
VertexData_compile(index, pos_buf, norm_buf, tex_buf) ==
    CASE index.format = "VertexP" -> compile_vertex_p(index, pos_buf)
      [] index.format = "VertexPN" -> compile_vertex_pn(index, pos_buf, norm_buf)
      [] index.format = "VertexPT" -> compile_vertex_pt(index, pos_buf, tex_buf)
      [] index.format = "VertexPNT" ->
            compile_vertex_pnt(index, pos_buf, norm_buf, tex_buf)
      [] OTHER -> Err("Cannot compile vertex when format is unknown")

---------------------------------------------------------------------------
(* src/object3d.rs *)

\* Object3d::from
Object3d_from(name) ==
    [name |-> name, format |-> "Unknown", vertex_buffer |-> <<>>,
     index_buffer |-> <<>>]

\* find_vertex with the scan started at the second element
find_vertex_skips_first(vertex_buffer, v) ==
    LET hits == {i \in 2..Len(vertex_buffer) : vertex_buffer[i] = v} IN
    IF hits = {} THEN None
    ELSE Some((CHOOSE i \in hits : \A j \in hits : i <= j) - 1)

\* find_vertex comparing with the last element only
find_vertex_last_only(vertex_buffer, v) ==
    IF vertex_buffer # <<>> /\ vertex_buffer[Len(vertex_buffer)] = v
    THEN Some(Len(vertex_buffer) - 1)
    ELSE None

\* the linear scan of add_vertex: Some(first 0-based i with vertex_buffer[i] ==
\* new_vertex), or None
find_vertex(vertex_buffer, v) ==
    LET hits == {i \in 1..Len(vertex_buffer) : vertex_buffer[i] = v} IN
    IF hits = {} THEN None
    ELSE Some((CHOOSE i \in hits : \A j \in hits : i <= j) - 1)

\* the scan with the new vertex put in front of the buffer
scan_and_push_prepends(o1, v) ==
    LET index == find_vertex(o1.vertex_buffer, v) IN
    IF IsSome(index)
    THEN [obj |-> [o1 EXCEPT !.index_buffer = Append(@, Unwrap(index))],
          r |-> Ok(<<>>)]
    ELSE [obj |-> [o1 EXCEPT !.index_buffer = Append(@, 0),
                             !.vertex_buffer = <<v>> \o @],
          r |-> Ok(<<>>)]

\* the body of add_vertex after its format check
scan_and_push(o1, v) ==
    LET index == find_vertex(o1.vertex_buffer, v) IN
    IF IsSome(index)
    THEN [obj |-> [o1 EXCEPT !.index_buffer = Append(@, Unwrap(index))],
          r |-> Ok(<<>>)]
    ELSE [obj |-> [o1 EXCEPT !.index_buffer = Append(@, Len(o1.vertex_buffer)),
                             !.vertex_buffer = Append(@, v)],
          r |-> Ok(<<>>)]

\* add_vertex with the new vertex pushed before its position is taken
add_vertex_len_after_push(self, v) ==
    IF self.format # "Unknown" /\ self.format # v.format
    THEN [obj |-> self,
          r |-> Err("Compilation error: Unexpected vertex format change")]
    ELSE
        LET o1 == IF self.format = "Unknown"
                  THEN [self EXCEPT !.format = v.format] ELSE self
            index == find_vertex(o1.vertex_buffer, v)
        IN IF IsSome(index)
           THEN [obj |-> [o1 EXCEPT !.index_buffer = Append(@, Unwrap(index))],
                 r |-> Ok(<<>>)]
           ELSE [obj |-> [o1 EXCEPT
                            !.index_buffer = Append(@, Len(o1.vertex_buffer) + 1),
                            !.vertex_buffer = Append(@, v)],
                 r |-> Ok(<<>>)]

\* add_vertex without the format comparison
add_vertex_no_format_check(self, v) ==
    scan_and_push(IF self.format = "Unknown"
                  THEN [self EXCEPT !.format = v.format] ELSE self, v)

\* add_vertex taking the candidate's format whatever the object's format is
add_vertex_adopts_format(self, v) ==
    scan_and_push([self EXCEPT !.format = v.format], v)

\* add_vertex skipping a candidate of another format and returning Ok
add_vertex_skips_mismatch(self, v) ==
    IF self.format # "Unknown" /\ self.format # v.format
    THEN [obj |-> self, r |-> Ok(<<>>)]
    ELSE scan_and_push(IF self.format = "Unknown"
                       THEN [self EXCEPT !.format = v.format] ELSE self, v)

\* add_vertex leaving an Unknown format as it is
add_vertex_leaves_format(self, v) ==
    IF self.format # "Unknown" /\ self.format # v.format
    THEN [obj |-> self,
          r |-> Err("Compilation error: Unexpected vertex format change")]
    ELSE scan_and_push(self, v)

\* add_vertex making its format check after the scan and the push
add_vertex_checks_last(self, v) ==
    IF self.format # "Unknown" /\ self.format # v.format
    THEN [obj |-> scan_and_push(self, v).obj,
          r |-> Err("Compilation error: Unexpected vertex format change")]
    ELSE scan_and_push(IF self.format = "Unknown"
                       THEN [self EXCEPT !.format = v.format] ELSE self, v)

\* Object3d::add_vertex: the object after the call and the Result returned
add_vertex(self, v) ==
    IF self.format # "Unknown" /\ self.format # v.format
    THEN [obj |-> self,
          r |-> Err("Compilation error: Unexpected vertex format change")]
    ELSE scan_and_push(IF self.format = "Unknown"
                       THEN [self EXCEPT !.format = v.format] ELSE self, v)

---------------------------------------------------------------------------
(* src/statement.rs *)

StatementTypes == {"COMMENT", "MTLLIB", "OBJECT", "VERTEX", "NORMAL",
                   "TEXCOORD", "USEMTL", "FACE", "ILLUM"}

\* StatementDataType: the variant and its fields
DataString(s) == [tag |-> "String", val |-> <<s>>]
DataNumber3D(t) == [tag |-> "Number3D", val |-> t]
DataNumber2D(t) == [tag |-> "Number2D", val |-> t]
DataNumber(x) == [tag |-> "Number", val |-> <<x>>]
DataFacePTN(a, b, c) == [tag |-> "FacePTN", val |-> a \o b \o c]
DataNone == [tag |-> "None", val |-> <<>>]

\* Statement::from; line_number and line_position are never read by compile
Statement_from(statement_type, data, line, column) ==
    [statement_type |-> statement_type, data |-> data,
     line_number |-> line, line_position |-> column]

number_3d_as_tuple(data) ==
    IF data.tag = "Number3D" THEN Some(data.val) ELSE None

number_2d_as_tuple(data) ==
    IF data.tag = "Number2D" THEN Some(data.val) ELSE None

\* face_as_index_tuples: Ok(Option<Vec<VertexDataIndex>>), or the panic of
\* VertexFormat::from_indices raised while the Vec is being built
face_as_index_tuples(data) ==
    IF data.tag = "FacePTN"
    THEN LET f == data.val
             x == VertexDataIndex_from_indices(<<f[1], f[2], f[3]>>)
             y == VertexDataIndex_from_indices(<<f[4], f[5], f[6]>>)
             z == VertexDataIndex_from_indices(<<f[7], f[8], f[9]>>)
         IN IF x.format = "Panic" \/ y.format = "Panic" \/ z.format = "Panic"
            THEN Panic("Vertex format must have position index")
            ELSE Ok(Some(<<x, y, z>>))
    ELSE Ok(None)

---------------------------------------------------------------------------
(* src/compiler.rs: `self` is the record of the Compiler's fields *)

\* Compiler::from_default_name
from_default_name(new_default_name) ==
    [default_name |-> new_default_name,
     cur_obj |-> None,
     position_buffer |-> <<>>,
     normal_buffer |-> <<>>,
     tex_coord_buffer |-> <<>>]

\* each handler yields the Compiler after the call, compile's `results` after
\* the call and the handler's Result
\* handle_vertex_statement starting the position buffer anew
handle_vertex_statement_restarts(self, statement, res) ==
    LET t == number_3d_as_tuple(statement.data) IN
    IF IsNone(t)
    THEN [self |-> self, results |-> res, r |-> Panic("Expected conversion")]
    ELSE [self |-> [self EXCEPT !.position_buffer = <<Unwrap(t)>>],
          results |-> res, r |-> Ok(<<>>)]

handle_vertex_statement(self, statement, res) ==
    LET t == number_3d_as_tuple(statement.data) IN
    IF IsNone(t)
    THEN [self |-> self, results |-> res, r |-> Panic("Expected conversion")]
    ELSE [self |-> [self EXCEPT !.position_buffer = Append(@, Unwrap(t))],
          results |-> res, r |-> Ok(<<>>)]

handle_normal_statement(self, statement, res) ==
    LET t == number_3d_as_tuple(statement.data) IN
    IF IsNone(t)
    THEN [self |-> self, results |-> res, r |-> Panic("Expected conversion")]
    ELSE [self |-> [self EXCEPT !.normal_buffer = Append(@, Unwrap(t))],
          results |-> res, r |-> Ok(<<>>)]

handle_tex_coord_statement(self, statement, res) ==
    LET t == number_2d_as_tuple(statement.data) IN
    IF IsNone(t)
    THEN [self |-> self, results |-> res, r |-> Panic("Expected conversion")]
    ELSE [self |-> [self EXCEPT !.tex_coord_buffer = Append(@, Unwrap(t))],
          results |-> res, r |-> Ok(<<>>)]

\* handle_object_statement with the new object starting from the vertex buffer
\* of the object it replaces
handle_object_statement_shares_buffer(self, statement, res) ==
    IF statement.data.tag # "String"
    THEN [self |-> self, results |-> res,
          r |-> Err("Object statement did not have string name")]
    ELSE [self |-> [self EXCEPT
                      !.cur_obj = Some([Object3d_from(statement.data.val[1])
                          EXCEPT !.vertex_buffer =
                              IF IsSome(self.cur_obj)
                              THEN Unwrap(self.cur_obj).vertex_buffer
                              ELSE <<>>])],
          results |-> IF IsSome(self.cur_obj)
                      THEN Append(res, Unwrap(self.cur_obj)) ELSE res,
          r |-> Ok(<<>>)]

handle_object_statement(self, statement, res) ==
    IF statement.data.tag # "String"
    THEN [self |-> self, results |-> res,
          r |-> Err("Object statement did not have string name")]
    ELSE [self |-> [self EXCEPT
                      !.cur_obj = Some(Object3d_from(statement.data.val[1]))],
          results |-> IF IsSome(self.cur_obj)
                      THEN Append(res, Unwrap(self.cur_obj)) ELSE res,
          r |-> Ok(<<>>)]

\* the for loop of handle_face_statement leaving out a vertex the object
\* already holds
RECURSIVE add_face_vertices_skips_known(_, _, _, _)
add_face_vertices_skips_known(self, current_obj, face_indices, k) ==
    IF k > Len(face_indices) THEN [obj |-> current_obj, r |-> Ok(<<>>)]
    ELSE LET vertex == VertexData_compile(face_indices[k], self.position_buffer,
                                          self.normal_buffer,
                                          self.tex_coord_buffer)
         IN IF vertex.kind # "Ok"
            THEN [obj |-> current_obj,
                  r |-> Panic("Expected vertex compilation: " \o vertex.msg)]
            ELSE IF IsSome(find_vertex(current_obj.vertex_buffer, vertex.val))
            THEN add_face_vertices_skips_known(self, current_obj,
                                               face_indices, k + 1)
            ELSE LET added == add_vertex(current_obj, vertex.val)
                 IN IF added.r.kind = "Err"
                    THEN [obj |-> added.obj, r |-> Err(added.r.msg)]
                    ELSE add_face_vertices_skips_known(self, added.obj,
                                                       face_indices, k + 1)

\* the for loop of handle_face_statement from its k-th VertexDataIndex on:
\* the current object when the loop ends and how it ended
RECURSIVE add_face_vertices(_, _, _, _)
add_face_vertices(self, current_obj, face_indices, k) ==
    IF k > Len(face_indices) THEN [obj |-> current_obj, r |-> Ok(<<>>)]
    ELSE LET vertex == VertexData_compile(face_indices[k], self.position_buffer,
                                          self.normal_buffer,
                                          self.tex_coord_buffer)
         IN IF vertex.kind # "Ok"
            THEN [obj |-> current_obj,
                  r |-> Panic("Expected vertex compilation: " \o vertex.msg)]
            ELSE LET added == add_vertex(current_obj, vertex.val)
                 IN IF added.r.kind = "Err"
                    THEN [obj |-> added.obj, r |-> Err(added.r.msg)]
                    ELSE add_face_vertices(self, added.obj, face_indices, k + 1)

handle_face_statement(self, statement, res) ==
    LET current_obj == IF IsSome(self.cur_obj) THEN Unwrap(self.cur_obj)
                       ELSE Object3d_from(self.default_name)
        inserted == [self EXCEPT !.cur_obj = Some(current_obj)]
        face_indices == face_as_index_tuples(statement.data)
    IN IF face_indices.kind = "Panic"
       THEN [self |-> inserted, results |-> res, r |-> face_indices]
       ELSE IF IsNone(face_indices.val)
       THEN [self |-> inserted, results |-> res,
             r |-> Panic("Expected conversion")]
       ELSE LET done == add_face_vertices(inserted, current_obj,
                                          Unwrap(face_indices.val), 1)
            IN [self |-> [inserted EXCEPT !.cur_obj = Some(done.obj)],
                results |-> res, r |-> done.r]

\* clean_up dropping the current object instead of moving it to the results
clean_up_forgets(self, res) ==
    [self |-> [self EXCEPT !.cur_obj = None], results |-> res, r |-> Ok(<<>>)]

\* Compiler::clean_up
clean_up(self, res) ==
    [self |-> [self EXCEPT !.cur_obj = None],
     results |-> IF IsSome(self.cur_obj)
                 THEN Append(res, Unwrap(self.cur_obj)) ELSE res,
     r |-> Ok(<<>>)]

\* the ignoring arms taken as the end of the current object
ignore_statement_ends_object(self, statement, res) ==
    [self |-> [self EXCEPT !.cur_obj = None],
     results |-> IF IsSome(self.cur_obj)
                 THEN Append(res, Unwrap(self.cur_obj)) ELSE res,
     r |-> Ok(<<>>)]

\* the arms of the match in Compiler::compile that ignore their statement
ignore_statement(self, statement, res) ==
    [self |-> self, results |-> res, r |-> Ok(<<>>)]

\* one iteration of the for loop of Compiler::compile: the match on
\* statement.statement_type
compile_statement(self, statement, res) ==
    CASE statement.statement_type = "OBJECT" ->
            handle_object_statement(self, statement, res)
      [] statement.statement_type = "VERTEX" ->
            handle_vertex_statement(self, statement, res)
      [] statement.statement_type = "NORMAL" ->
            handle_normal_statement(self, statement, res)
      [] statement.statement_type = "TEXCOORD" ->
            handle_tex_coord_statement(self, statement, res)
      [] statement.statement_type = "FACE" ->
            handle_face_statement(self, statement, res)
      [] OTHER -> ignore_statement(self, statement, res)

---------------------------------------------------------------------------
(* src/token.rs *)

TokenTypes == {"COMMENT", "MTLLIB", "OBJECT", "VERTEX", "NORMAL", "TEXCOORD",
               "USEMTL", "FACE", "ILLUM", "NUMBER", "STRING", "POLYGON",
               "SEPARATOR", "LINEBREAK"}

\* TokenType::from_str: a text is a sequence of characters
TokenType_from_str(name) ==
    CASE name = <<"c", "o", "m", "m", "e", "n", "t">> -> Some("COMMENT")
      [] name = <<"m", "t", "l", "l", "i", "b">> -> Some("MTLLIB")
      [] name = <<"o">> -> Some("OBJECT")
      [] name = <<"v">> -> Some("VERTEX")
      [] name = <<"v", "n">> -> Some("NORMAL")
      [] name = <<"v", "t">> -> Some("TEXCOORD")
      [] name = <<"u", "s", "e", "m", "t", "l">> -> Some("USEMTL")
      [] name = <<"f">> -> Some("FACE")
      [] name = <<"s">> -> Some("ILLUM")
      [] OTHER -> None

\* TokenDataType: the variant and its fields
TokenString(s) == [tag |-> "String", val |-> s]
TokenNumber(x) == [tag |-> "Number", val |-> <<x>>]
TokenVertexPTN(x, y, z) == [tag |-> "VertexPTN", val |-> <<x, y, z>>]
TokenNone == [tag |-> "None", val |-> <<>>]

Token_from(token_type, data, line, column) ==
    [token_type |-> token_type, data |-> data,
     line_number |-> line, line_position |-> column]

---------------------------------------------------------------------------
(* src/lexer.rs: `self` is the record of the Lexer's fields.  A character   *)
(* is a one-element string, named "0xE9" for the character of byte 0xE9.    *)
(* A u64 is the integer it holds; a value of 2^63 or more stands as that    *)
(* value minus 2^64, so wrapping arithmetic is integer arithmetic.          *)

LexerStates == {"Initial", "Token", "LineBreak", "Separator", "Comment"}

\* the characters '0'..'9' and their values
Digits == {"0", "1", "2", "3", "4", "5", "6", "7", "8", "9"}
DigitValue(c) ==
    CASE c = "0" -> 0 [] c = "1" -> 1 [] c = "2" -> 2 [] c = "3" -> 3
      [] c = "4" -> 4 [] c = "5" -> 5 [] c = "6" -> 6 [] c = "7" -> 7
      [] c = "8" -> 8 [] c = "9" -> 9

\* the value of a run of decimal digits
RECURSIVE DecimalValue(_)
DecimalValue(text) ==
    IF text = <<>> THEN 0
    ELSE 10 * DecimalValue(SubSeq(text, 1, Len(text) - 1))
            + DigitValue(text[Len(text)])

IsDigits(text) == text # <<>> /\ \A i \in 1..Len(text) : text[i] \in Digits

\* char::from(u8) gives U+0000..U+00FF; String::len counts UTF-8 bytes, one
\* for a character below U+0080 and two from U+0080 on
HighChars == {"0xE9"}
len_utf8(c) == IF c \in HighChars THEN 2 ELSE 1
RECURSIVE String_len(_)
String_len(text) ==
    IF text = <<>> THEN 0 ELSE len_utf8(Head(text)) + String_len(Tail(text))

\* char::is_whitespace on the characters of one byte below U+0080
IsWhitespace(c) == c \in {" ", "\t", "\n", "\r"}

\* char::to_ascii_lowercase
UpperCase == <<"A", "B", "C", "D", "E", "F", "G", "H", "I", "J", "K", "L", "M",
               "N", "O", "P", "Q", "R", "S", "T", "U", "V", "W", "X", "Y", "Z">>
LowerCase == <<"a", "b", "c", "d", "e", "f", "g", "h", "i", "j", "k", "l", "m",
               "n", "o", "p", "q", "r", "s", "t", "u", "v", "w", "x", "y", "z">>
to_ascii_lowercase(c) ==
    IF \E i \in 1..26 : UpperCase[i] = c
    THEN LowerCase[CHOOSE i \in 1..26 : UpperCase[i] = c]
    ELSE c
eq_ignore_ascii_case(text, word) ==
    [i \in 1..Len(text) |-> to_ascii_lowercase(text[i])] = word

\* the position of the first character of `text` that is in `cs`, 0 if none
FirstIndex(text, cs) ==
    IF \E i \in 1..Len(text) : text[i] \in cs
    THEN CHOOSE i \in 1..Len(text) :
             text[i] \in cs /\ \A j \in 1..(i - 1) : text[j] \notin cs
    ELSE 0

AllDigits(text) == \A i \in 1..Len(text) : text[i] \in Digits

\* an f64: its class ("finite", "inf" or "nan") and, when finite, its value
\* as the decimal <<m, e>>, m * 10^e with m not a multiple of 10, zero being
\* <<0, 0>> (-0.0 and 0.0 are equal); an infinity holds its sign as <<s, 0>>
F64(class, val) == [class |-> class, val |-> val]

\* m * 10^e with the trailing zeros of m moved into e
RECURSIVE Decimal(_, _)
Decimal(m, e) ==
    IF m = 0 THEN <<0, 0>>
    ELSE IF m % 10 = 0 THEN Decimal(m \div 10, e + 1)
    ELSE <<m, e>>

\* the number of decimal digits of m > 0
RECURSIVE DigitCount(_)
DigitCount(m) == IF m < 10 THEN 1 ELSE 1 + DigitCount(m \div 10)

RECURSIVE Pow10(_)
Pow10(k) == IF k = 0 THEN 1 ELSE 10 * Pow10(k - 1)

\* the f64 nearest to the decimal m * 10^e, m >= 0 of at most 9 digits: at
\* 2^1024 - 2^970 = 1.797693134862315807...e308 and above it is infinite,
\* below 10^-324 it is zero, and in between the decimal names it (exact for
\* normal values; distinct decimals of so few digits give distinct f64s)
round_to_f64(m, e, negative) ==
    LET dec == Decimal(m, e)
        d == DigitCount(dec[1])
        magnitude == d + dec[2]
    IN  IF dec[1] = 0 THEN F64("finite", <<0, 0>>)
        ELSE IF magnitude > 309
                \/ (magnitude = 309 /\ dec[1] * Pow10(9 - d) >= 179769314)
        THEN F64("inf", <<IF negative THEN -1 ELSE 1, 0>>)
        ELSE IF magnitude <= -324 THEN F64("finite", <<0, 0>>)
        ELSE F64("finite", <<IF negative THEN -dec[1] ELSE dec[1], dec[2]>>)

\* the Number of the grammar of f64::from_str:
\*   ( Digit+ | Digit+ '.' Digit* | Digit* '.' Digit+ ) ( 'e' Sign? Digit+ )?
parse_number(body, negative) ==
    LET e_at == FirstIndex(body, {"e", "E"})
        mantissa == IF e_at = 0 THEN body ELSE SubSeq(body, 1, e_at - 1)
        exponent == IF e_at = 0 THEN <<>>
                    ELSE SubSeq(body, e_at + 1, Len(body))
        dot_at == FirstIndex(mantissa, {"."})
        integral == IF dot_at = 0 THEN mantissa
                    ELSE SubSeq(mantissa, 1, dot_at - 1)
        fraction == IF dot_at = 0 THEN <<>>
                    ELSE SubSeq(mantissa, dot_at + 1, Len(mantissa))
        exp_signed == exponent # <<>> /\ exponent[1] \in {"+", "-"}
        exp_digits == IF exp_signed THEN Tail(exponent) ELSE exponent
        exp_value == IF exp_signed /\ exponent[1] = "-"
                     THEN -DecimalValue(exp_digits)
                     ELSE DecimalValue(exp_digits)
    IN  IF /\ AllDigits(integral)
           /\ AllDigits(fraction)
           /\ (integral # <<>> \/ fraction # <<>>)
           /\ (e_at = 0 \/ IsDigits(exp_digits))
        THEN Ok(round_to_f64(DecimalValue(integral \o fraction),
                             (IF e_at = 0 THEN 0 ELSE exp_value)
                                 - Len(fraction),
                             negative))
        ELSE Err("invalid float literal")

\* f64::from_str: Sign? ( 'inf' | 'infinity' | 'nan' | Number ), letters in
\* either case
f64_from_str(text) ==
    LET is_signed == text # <<>> /\ text[1] \in {"+", "-"}
        negative == is_signed /\ text[1] = "-"
        body == IF is_signed THEN Tail(text) ELSE text
    IN  IF eq_ignore_ascii_case(body, <<"n", "a", "n">>)
        THEN Ok(F64("nan", <<0, 0>>))
        ELSE IF eq_ignore_ascii_case(body, <<"i", "n", "f">>)
                \/ eq_ignore_ascii_case(body,
                       <<"i", "n", "f", "i", "n", "i", "t", "y">>)
        THEN Ok(F64("inf", <<IF negative THEN -1 ELSE 1, 0>>))
        ELSE parse_number(body, negative)

\* u64::from_str: an optional '+', then digits (values up to 2^64 - 1; the
\* texts here are far shorter than the 20 digits that exceed it)
u64_from_str(text) ==
    LET body == IF text # <<>> /\ text[1] = "+" THEN Tail(text) ELSE text
    IN  IF IsDigits(body) THEN Ok(DecimalValue(body)) ELSE Err("")

\* Float::new without the NaN check
Float_new_accepts_nan(x) == Ok(x)

\* Float::new (NotNan::new) fails on NaN only
Float_new(x) == IF x.class = "nan" THEN Err("") ELSE Ok(x)

\* Lexer::default
Lexer_new ==
    [char_buffer |-> <<>>, char_position |-> 0, line_number |-> 1,
     state |-> "Initial"]

\* check_for_state_transition without the branch that ends a "\n\r" run
check_for_state_transition_no_nr(self, cur_char) ==
    LET is_n_line_ending == cur_char = "\n"
        is_line_ending == cur_char = "\n" \/ cur_char = "\r"
        is_whitespace == IsWhitespace(cur_char) /\ ~is_line_ending
        is_comment == cur_char = "#"
        is_normal == ~(is_line_ending \/ is_whitespace \/ is_comment)
    IN  IF is_line_ending /\ self.state # "LineBreak" THEN Some("LineBreak")
        ELSE IF is_n_line_ending /\ self.state = "LineBreak"
             THEN Some("LineBreak")
        ELSE IF is_line_ending /\ self.state = "Comment" THEN Some("LineBreak")
        ELSE IF is_whitespace /\ self.state # "Separator"
                /\ self.state # "Comment" THEN Some("Separator")
        ELSE IF is_comment /\ self.state # "Comment" THEN Some("Comment")
        ELSE IF is_normal /\ self.state # "Token" /\ self.state # "Comment"
             THEN Some("Token")
        ELSE None

\* Lexer::check_for_state_transition: the branches in their order
check_for_state_transition(self, cur_char) ==
    LET is_n_line_ending == cur_char = "\n"
        is_line_ending == cur_char = "\n" \/ cur_char = "\r"
        is_whitespace == IsWhitespace(cur_char) /\ ~is_line_ending
        is_comment == cur_char = "#"
        is_normal == ~(is_line_ending \/ is_whitespace \/ is_comment)
        has_nr_line_ending == self.char_buffer = <<"\n", "\r">>
    IN  IF is_line_ending /\ self.state # "LineBreak" THEN Some("LineBreak")
        ELSE IF is_n_line_ending /\ self.state = "LineBreak"
             THEN Some("LineBreak")
        ELSE IF is_line_ending /\ has_nr_line_ending THEN Some("LineBreak")
        ELSE IF is_line_ending /\ self.state = "Comment" THEN Some("LineBreak")
        ELSE IF is_whitespace /\ self.state # "Separator"
                /\ self.state # "Comment" THEN Some("Separator")
        ELSE IF is_comment /\ self.state # "Comment" THEN Some("Comment")
        ELSE IF is_normal /\ self.state # "Token" /\ self.state # "Comment"
             THEN Some("Token")
        ELSE None

\* Lexer::save_char
save_char(self, cur_char) ==
    [self EXCEPT !.char_buffer = Append(@, cur_char),
                 !.char_position = @ + 1]

\* the while loop of Lexer::lex_polygon and what follows it
RECURSIVE lex_polygon_loop(_, _, _, _)
lex_polygon_loop(chars, buffer, data, divider_count) ==
    IF chars = <<>>
    THEN LET last == IF buffer = <<>> THEN Ok(0) ELSE u64_from_str(buffer)
             all == Append(data, last.val)
         IN  IF last.kind = "Err" THEN None
             ELSE IF Len(all) # 3 THEN None
             ELSE Some(TokenVertexPTN(all[1], all[2], all[3]))
    ELSE IF Head(chars) # "/"
    THEN lex_polygon_loop(Tail(chars), Append(buffer, Head(chars)), data,
                          divider_count)
    ELSE IF divider_count >= 2 THEN None
    ELSE IF buffer = <<>>
    THEN lex_polygon_loop(Tail(chars), buffer, Append(data, 0),
                          divider_count + 1)
    ELSE LET int_parse_result == u64_from_str(buffer) IN
         IF int_parse_result.kind = "Err" THEN None
         ELSE lex_polygon_loop(Tail(chars), <<>>,
                               Append(data, int_parse_result.val),
                               divider_count + 1)

\* Lexer::lex_polygon
lex_polygon(text) == lex_polygon_loop(text, <<>>, <<>>, 0)

\* the token process_char_buffer makes of a non-empty character run: the
\* state's own token, then keyword, number, polygon, and STRING for the rest
classify(lexer_state, text, line, char_pos) ==
    IF lexer_state = "Comment"
    THEN Token_from("COMMENT", TokenString(text), line, char_pos)
    ELSE IF lexer_state = "LineBreak"
    THEN Token_from("LINEBREAK", TokenString(text), line,
                    char_pos)
    ELSE IF lexer_state = "Separator"
    THEN Token_from("SEPARATOR", TokenNone, line, char_pos)
    ELSE LET token_type == TokenType_from_str(text)
             parse_float_result == f64_from_str(text)
             lex_polygon_result == lex_polygon(text)
         IN  IF IsSome(token_type)
             THEN Token_from(Unwrap(token_type), TokenNone, line,
                             char_pos)
             ELSE IF parse_float_result.kind = "Ok"
                     /\ Float_new(parse_float_result.val).kind = "Ok"
             THEN Token_from("NUMBER", TokenNumber(parse_float_result.val),
                             line, char_pos)
             ELSE IF IsSome(lex_polygon_result)
             THEN Token_from("POLYGON", Unwrap(lex_polygon_result),
                             line, char_pos)
             ELSE Token_from("STRING", TokenString(text), line,
                             char_pos)

\* process_char_buffer with the line counter advanced by one per line-ending
\* character of the run
process_char_buffer_counts_chars(self, tokens, checks) ==
    IF self.char_buffer = <<>>
    THEN [self |-> self, lexed_tokens |-> tokens, r |-> Ok(<<>>)]
    ELSE LET difference == self.char_position - String_len(self.char_buffer)
             char_pos == difference + 1
             cleared == [self EXCEPT !.char_buffer = <<>>]
         IN  IF checks /\ difference < 0
             THEN [self |-> cleared, lexed_tokens |-> tokens,
                   r |-> Panic("attempt to subtract with overflow")]
             ELSE [self |-> IF self.state = "LineBreak"
                            THEN [cleared EXCEPT
                                    !.char_position = 0,
                                    !.line_number = @ + Len(self.char_buffer)]
                            ELSE cleared,
                   lexed_tokens |-> Append(tokens,
                       classify(self.state, self.char_buffer,
                                self.line_number, char_pos)),
                   r |-> Ok(<<>>)]

\* Lexer::process_char_buffer.  char_position - len is a u64 subtraction: with
\* overflow checks a negative difference panics, without them it wraps
process_char_buffer(self, tokens, checks) ==
    IF self.char_buffer = <<>>
    THEN [self |-> self, lexed_tokens |-> tokens, r |-> Ok(<<>>)]
    ELSE LET difference == self.char_position - String_len(self.char_buffer)
             char_pos == difference + 1
             cleared == [self EXCEPT !.char_buffer = <<>>]
         IN  IF checks /\ difference < 0
             THEN [self |-> cleared, lexed_tokens |-> tokens,
                   r |-> Panic("attempt to subtract with overflow")]
             ELSE [self |-> IF self.state = "LineBreak"
                            THEN [cleared EXCEPT !.char_position = 0,
                                                 !.line_number = @ + 1]
                            ELSE cleared,
                   lexed_tokens |-> Append(tokens,
                       classify(self.state, self.char_buffer,
                                self.line_number, char_pos)),
                   r |-> Ok(<<>>)]

\* one iteration of the loop of Lexer::lex_tokens on the character cur_char
lex_char(self, tokens, cur_char, checks) ==
    LET next_state == check_for_state_transition(self, cur_char) IN
    IF IsSome(next_state)
    THEN LET out == process_char_buffer(self, tokens, checks)
         IN  IF out.r.kind # "Ok" THEN out
             ELSE [self |-> save_char([out.self EXCEPT
                                          !.state = Unwrap(next_state)],
                                      cur_char),
                   lexed_tokens |-> out.lexed_tokens, r |-> Ok(<<>>)]
    ELSE [self |-> save_char(self, cur_char), lexed_tokens |-> tokens,
          r |-> Ok(<<>>)]

\* Lexer::lex_tokens on a whole stream: Ok(tokens), or the panic
RECURSIVE lex_tokens_loop(_, _, _, _)
lex_tokens_loop(self, tokens, stream, checks) ==
    IF stream = <<>>
    THEN LET out == process_char_buffer(self, tokens, checks)
         IN  IF out.r.kind # "Ok" THEN out.r ELSE Ok(out.lexed_tokens)
    ELSE LET out == lex_char(self, tokens, Head(stream), checks)
         IN  IF out.r.kind # "Ok" THEN out.r
             ELSE lex_tokens_loop(out.self, out.lexed_tokens, Tail(stream),
                                  checks)

lex_tokens(stream, checks) ==
    lex_tokens_loop(Lexer_new, <<>>, stream, checks)

---------------------------------------------------------------------------
(* src/parser.rs: `self` is the record of the Parser's fields *)

\* Parser::default
Parser_new ==
    [statement_type |-> None,
     statement_data |-> DataNone,
     statement_line_number |-> 0,
     statement_line_position |-> 0,
     data_buffer |-> <<>>,
     index_buffer |-> <<>>,
     parsed_token_count |-> 0,
     next_expected_token |-> "COMMENT"]

get_unexpected_token_error(token) == "Unexpected token: " \o token.token_type

convert_token_data_to_statement_data(token_data) ==
    IF token_data.tag = "String" THEN DataString(token_data.val) ELSE DataNone

convert_token_type_to_statement_type(token_type) ==
    IF token_type \in StatementTypes THEN Some(token_type) ELSE None

\* reset_state that keeps the two buffers
reset_state_keeps_buffers(self) ==
    [self EXCEPT !.statement_type = None,
                 !.statement_data = DataNone,
                 !.statement_line_number = 0,
                 !.statement_line_position = 0,
                 !.parsed_token_count = 0]

\* Parser::reset_state
reset_state(self) ==
    [self EXCEPT !.statement_type = None,
                 !.statement_data = DataNone,
                 !.statement_line_number = 0,
                 !.statement_line_position = 0,
                 !.parsed_token_count = 0,
                 !.data_buffer = <<>>,
                 !.index_buffer = <<>>]

\* Parser::extract_statement, on a parser whose statement_type is set
extract_statement(self) ==
    [self |-> reset_state(self),
     r |-> Ok(Some(Statement_from(Unwrap(self.statement_type),
                                  self.statement_data,
                                  self.statement_line_number,
                                  self.statement_line_position)))]

\* a token taken into the statement in progress: parsed_token_count += 1 and
\* Ok(None)
Consumed(self) ==
    [self |-> [self EXCEPT !.parsed_token_count = @ + 1], r |-> Ok(None)]

\* handle_expecting_header_state expecting a SEPARATOR after every header
handle_expecting_header_state_always_separator(self, cur_token) ==
    IF cur_token.token_type \in {"SEPARATOR", "LINEBREAK"}
    THEN [self |-> self, r |-> Ok(<<>>)]
    ELSE LET new_statement_type ==
                 convert_token_type_to_statement_type(cur_token.token_type)
         IN  IF IsNone(new_statement_type)
             THEN [self |-> self, r |-> Err("Expected statement start")]
             ELSE [self |-> [self EXCEPT
                        !.statement_type = new_statement_type,
                        !.statement_data =
                            convert_token_data_to_statement_data(
                                cur_token.data),
                        !.statement_line_number = cur_token.line_number,
                        !.statement_line_position = cur_token.line_position,
                        !.parsed_token_count = 1,
                        !.next_expected_token = "SEPARATOR"],
                   r |-> Ok(<<>>)]

\* Parser::handle_expecting_header_state
handle_expecting_header_state(self, cur_token) ==
    IF cur_token.token_type \in {"SEPARATOR", "LINEBREAK"}
    THEN [self |-> self, r |-> Ok(<<>>)]
    ELSE LET new_statement_type ==
                 convert_token_type_to_statement_type(cur_token.token_type)
         IN  IF IsNone(new_statement_type)
             THEN [self |-> self, r |-> Err("Expected statement start")]
             ELSE [self |-> [self EXCEPT
                        !.statement_type = new_statement_type,
                        !.statement_data =
                            convert_token_data_to_statement_data(
                                cur_token.data),
                        !.statement_line_number = cur_token.line_number,
                        !.statement_line_position = cur_token.line_position,
                        !.parsed_token_count = 1,
                        !.next_expected_token =
                            IF cur_token.token_type = "COMMENT"
                            THEN "LINEBREAK" ELSE "SEPARATOR"],
                   r |-> Ok(<<>>)]

\* Parser::parse_comment_statement
parse_comment_statement(self, token) ==
    IF token.token_type # "LINEBREAK"
    THEN [self |-> self, r |-> Err(get_unexpected_token_error(token))]
    ELSE extract_statement([self EXCEPT !.parsed_token_count = @ + 1])

\* Parser::is_expected_token
is_expected_token(self, token, expected_type) ==
    self.next_expected_token = token.token_type
        /\ token.token_type = expected_type

\* parse_single_string_statement without the capture of the STRING payload
parse_single_string_statement_drops_text(self, token) ==
    IF is_expected_token(self, token, "SEPARATOR")
    THEN Consumed([self EXCEPT !.next_expected_token = "STRING"])
    ELSE IF is_expected_token(self, token, "STRING")
    THEN Consumed([self EXCEPT !.next_expected_token = "LINEBREAK"])
    ELSE IF is_expected_token(self, token, "LINEBREAK")
    THEN extract_statement([self EXCEPT !.parsed_token_count = @ + 1])
    ELSE [self |-> self, r |-> Err(get_unexpected_token_error(token))]

\* Parser::parse_single_string_statement
parse_single_string_statement(self, token) ==
    IF is_expected_token(self, token, "SEPARATOR")
    THEN Consumed([self EXCEPT !.next_expected_token = "STRING"])
    ELSE IF is_expected_token(self, token, "STRING")
    THEN Consumed([self EXCEPT
             !.statement_data =
                 convert_token_data_to_statement_data(token.data),
             !.next_expected_token = "LINEBREAK"])
    ELSE IF is_expected_token(self, token, "LINEBREAK")
    THEN extract_statement([self EXCEPT !.parsed_token_count = @ + 1])
    ELSE [self |-> self, r |-> Err(get_unexpected_token_error(token))]

\* parse_number_statement with each number put in front of the buffer
parse_number_statement_prepends(self, token, expected_number_count) ==
    LET tokens_until_line_break == 1 + (expected_number_count * 2)
        buffer == self.data_buffer
        unexpected == [self |-> self,
            r |-> Err("Unexpected token. Expected \"SEPARATOR\" "
                      \o "but found \"LINEBREAK\"")]
    IN  IF is_expected_token(self, token, "SEPARATOR")
        THEN Consumed([self EXCEPT !.next_expected_token = "NUMBER"])
        ELSE IF is_expected_token(self, token, "NUMBER")
        THEN IF token.data.tag # "Number"
             THEN [self |-> self,
                   r |-> Err("Number token did not have a number as data")]
             ELSE LET pushed == [self EXCEPT
                          !.data_buffer = <<token.data.val[1]>> \o @,
                          !.parsed_token_count = @ + 1]
                  IN  [self |-> [pushed EXCEPT !.next_expected_token =
                           IF pushed.parsed_token_count
                                 >= tokens_until_line_break
                           THEN "LINEBREAK" ELSE "SEPARATOR"],
                       r |-> Ok(None)]
        ELSE IF is_expected_token(self, token, "LINEBREAK")
        THEN IF expected_number_count = 3 /\ Len(buffer) = 3
             THEN extract_statement([self EXCEPT
                      !.statement_data =
                          DataNumber3D(<<buffer[1], buffer[2], buffer[3]>>),
                      !.parsed_token_count = @ + 1])
             ELSE IF expected_number_count = 2 /\ Len(buffer) = 2
             THEN extract_statement([self EXCEPT
                      !.statement_data = DataNumber2D(<<buffer[1], buffer[2]>>),
                      !.parsed_token_count = @ + 1])
             ELSE IF expected_number_count = 1 /\ Len(buffer) = 1
             THEN extract_statement([self EXCEPT
                      !.statement_data = DataNumber(buffer[1]),
                      !.parsed_token_count = @ + 1])
             ELSE unexpected
        ELSE unexpected

\* Parser::parse_number_statement
parse_number_statement(self, token, expected_number_count) ==
    LET tokens_until_line_break == 1 + (expected_number_count * 2)
        buffer == self.data_buffer
        unexpected == [self |-> self,
            r |-> Err("Unexpected token. Expected \"SEPARATOR\" "
                      \o "but found \"LINEBREAK\"")]
    IN  IF is_expected_token(self, token, "SEPARATOR")
        THEN Consumed([self EXCEPT !.next_expected_token = "NUMBER"])
        ELSE IF is_expected_token(self, token, "NUMBER")
        THEN IF token.data.tag # "Number"
             THEN [self |-> self,
                   r |-> Err("Number token did not have a number as data")]
             ELSE LET pushed == [self EXCEPT
                          !.data_buffer = Append(@, token.data.val[1]),
                          !.parsed_token_count = @ + 1]
                  IN  [self |-> [pushed EXCEPT !.next_expected_token =
                           IF pushed.parsed_token_count
                                 >= tokens_until_line_break
                           THEN "LINEBREAK" ELSE "SEPARATOR"],
                       r |-> Ok(None)]
        ELSE IF is_expected_token(self, token, "LINEBREAK")
        THEN IF expected_number_count = 3 /\ Len(buffer) = 3
             THEN extract_statement([self EXCEPT
                      !.statement_data =
                          DataNumber3D(<<buffer[1], buffer[2], buffer[3]>>),
                      !.parsed_token_count = @ + 1])
             ELSE IF expected_number_count = 2 /\ Len(buffer) = 2
             THEN extract_statement([self EXCEPT
                      !.statement_data = DataNumber2D(<<buffer[1], buffer[2]>>),
                      !.parsed_token_count = @ + 1])
             ELSE IF expected_number_count = 1 /\ Len(buffer) = 1
             THEN extract_statement([self EXCEPT
                      !.statement_data = DataNumber(buffer[1]),
                      !.parsed_token_count = @ + 1])
             ELSE unexpected
        ELSE unexpected

\* parse_face_statement with the second and third index of a POLYGON pushed
\* in the other order
parse_face_statement_swaps(self, token) ==
    IF is_expected_token(self, token, "SEPARATOR")
    THEN Consumed([self EXCEPT !.next_expected_token = "POLYGON"])
    ELSE IF is_expected_token(self, token, "POLYGON")
    THEN IF token.data.tag # "VertexPTN"
         THEN [self |-> self,
               r |-> Err("Expected token data to be VertexPNT")]
         ELSE LET pushed == [self EXCEPT
                      !.index_buffer = @ \o <<token.data.val[1],
                                              token.data.val[3],
                                              token.data.val[2]>>,
                      !.parsed_token_count = @ + 1]
              IN  [self |-> [pushed EXCEPT !.next_expected_token =
                       IF pushed.parsed_token_count >= 7
                       THEN "LINEBREAK" ELSE "SEPARATOR"],
                   r |-> Ok(None)]
    ELSE IF is_expected_token(self, token, "LINEBREAK")
    THEN IF Len(self.index_buffer) # 9
         THEN [self |-> self,
               r |-> Err("Expected face statement to have 9 indices")]
         ELSE extract_statement([self EXCEPT
                  !.statement_data =
                      DataFacePTN(SubSeq(self.index_buffer, 1, 3),
                                  SubSeq(self.index_buffer, 4, 6),
                                  SubSeq(self.index_buffer, 7, 9)),
                  !.parsed_token_count = @ + 1])
    ELSE [self |-> self, r |-> Err(get_unexpected_token_error(token))]

\* Parser::parse_face_statement
parse_face_statement(self, token) ==
    IF is_expected_token(self, token, "SEPARATOR")
    THEN Consumed([self EXCEPT !.next_expected_token = "POLYGON"])
    ELSE IF is_expected_token(self, token, "POLYGON")
    THEN IF token.data.tag # "VertexPTN"
         THEN [self |-> self,
               r |-> Err("Expected token data to be VertexPNT")]
         ELSE LET pushed == [self EXCEPT
                      !.index_buffer = @ \o token.data.val,
                      !.parsed_token_count = @ + 1]
              IN  [self |-> [pushed EXCEPT !.next_expected_token =
                       IF pushed.parsed_token_count >= 7
                       THEN "LINEBREAK" ELSE "SEPARATOR"],
                   r |-> Ok(None)]
    ELSE IF is_expected_token(self, token, "LINEBREAK")
    THEN IF Len(self.index_buffer) # 9
         THEN [self |-> self,
               r |-> Err("Expected face statement to have 9 indices")]
         ELSE extract_statement([self EXCEPT
                  !.statement_data =
                      DataFacePTN(SubSeq(self.index_buffer, 1, 3),
                                  SubSeq(self.index_buffer, 4, 6),
                                  SubSeq(self.index_buffer, 7, 9)),
                  !.parsed_token_count = @ + 1])
    ELSE [self |-> self, r |-> Err(get_unexpected_token_error(token))]

\* Parser::handle_token, on a parser whose statement_type is set
handle_token(self, token) ==
    LET kind == Unwrap(self.statement_type) IN
    CASE kind = "COMMENT" -> parse_comment_statement(self, token)
      [] kind \in {"MTLLIB", "OBJECT", "USEMTL"} ->
            parse_single_string_statement(self, token)
      [] kind \in {"VERTEX", "NORMAL"} -> parse_number_statement(self, token, 3)
      [] kind = "TEXCOORD" -> parse_number_statement(self, token, 2)
      [] kind = "FACE" -> parse_face_statement(self, token)
      [] kind = "ILLUM" -> parse_number_statement(self, token, 1)

\* parse_token that abandons the statement in progress on an unexpected
\* token and goes on
parse_token_recovers(self, token) ==
    IF IsNone(self.statement_type)
    THEN LET parse_result == handle_expecting_header_state(self, token) IN
         IF parse_result.r.kind = "Err" THEN parse_result
         ELSE [self |-> parse_result.self, r |-> Ok(None)]
    ELSE LET parse_result == handle_token(self, token) IN
         IF parse_result.r.kind = "Err"
         THEN [self |-> reset_state(self), r |-> Ok(None)]
         ELSE parse_result

\* Parser::parse_token: the parser after the token, and Ok(Some(statement)),
\* Ok(None) or Err(message)
parse_token(self, token) ==
    IF IsNone(self.statement_type)
    THEN LET parse_result == handle_expecting_header_state(self, token) IN
         IF parse_result.r.kind = "Err" THEN parse_result
         ELSE [self |-> parse_result.self, r |-> Ok(None)]
    ELSE handle_token(self, token)

\* Parser::parse_tokens: Ok(parsed_statements), or the first Err
RECURSIVE parse_tokens_loop(_, _, _)
parse_tokens_loop(self, tokens, statements) ==
    IF tokens = <<>> THEN Ok(statements)
    ELSE LET parse_result == parse_token(self, Head(tokens)) IN
         IF parse_result.r.kind = "Err" THEN Err(parse_result.r.msg)
         ELSE parse_tokens_loop(parse_result.self, Tail(tokens),
                  IF IsSome(parse_result.r.val)
                  THEN Append(statements, Unwrap(parse_result.r.val))
                  ELSE statements)

parse_tokens(tokens) == parse_tokens_loop(Parser_new, tokens, <<>>)

---------------------------------------------------------------------------
(* Compiler::compile as one call *)

\* Compiler::compile on a whole statement list: Ok(results), the first Err,
\* or the panic
\* the Compiler after the call, and the Result
RECURSIVE compile_loop(_, _, _)
compile_loop(self, statements, res) ==
    IF statements = <<>>
    THEN [self |-> clean_up(self, res).self,
          r |-> Ok(clean_up(self, res).results)]
    ELSE LET out == compile_statement(self, Head(statements), res) IN
         IF out.r.kind # "Ok" THEN [self |-> out.self, r |-> out.r]
         ELSE compile_loop(out.self, Tail(statements), out.results)

compile(self, statements) == compile_loop(self, statements, <<>>).r

---------------------------------------------------------------------------
(* Compiler::compile as a state machine: one step per statement of the      *)
(* list, then clean_up and the return                                       *)

Running == [kind |-> "Running", val |-> <<>>, msg |-> ""]

\* the Compiler's fields as the record the handlers work on
Self ==
    [default_name |-> DefaultName,
     cur_obj |-> cur_obj,
     position_buffer |-> position_buffer,
     normal_buffer |-> normal_buffer,
     tex_coord_buffer |-> tex_coord_buffer]

\* the statements a list may hold, by statement_type; a payload of the wrong
\* variant is DataNone
Faces == {DataFacePTN(a, b, c) : a \in Refs, b \in Refs, c \in Refs}
Statements(statement_type) ==
    CASE statement_type = "VERTEX" ->
            {Statement_from("VERTEX", DataNumber3D(t), 1, 0) : t \in PosVals}
            \cup {Statement_from("VERTEX", DataNone, 1, 0)}
      [] statement_type = "NORMAL" ->
            {Statement_from("NORMAL", DataNumber3D(t), 1, 0) : t \in NormVals}
            \cup {Statement_from("NORMAL", DataNone, 1, 0)}
      [] statement_type = "TEXCOORD" ->
            {Statement_from("TEXCOORD", DataNumber2D(t), 1, 0) : t \in TexVals}
            \cup {Statement_from("TEXCOORD", DataNone, 1, 0)}
      [] statement_type = "OBJECT" ->
            {Statement_from("OBJECT", DataString(n), 1, 0) : n \in Names}
            \cup {Statement_from("OBJECT", DataNone, 1, 0)}
      [] statement_type = "FACE" ->
            {Statement_from("FACE", d, 1, 0) : d \in Faces \cup {DataNone}}
      [] statement_type = "ILLUM" ->
            {Statement_from("ILLUM", DataNumber(1), 1, 0)}
      [] OTHER -> {Statement_from(statement_type, DataString("x"), 1, 0)}

\* the three references of a face payload, in source order
FaceRefs(data) ==
    <<SubSeq(data.val, 1, 3), SubSeq(data.val, 4, 6), SubSeq(data.val, 7, 9)>>

\* the history after `statement` has been consumed
SeenObjectsAfter(statement) ==
    CASE statement.statement_type = "OBJECT" /\ statement.data.tag = "String" ->
            Append(seen_objects, [name |-> statement.data.val[1],
                                  implicit |-> FALSE, refs |-> <<>>])
      [] statement.statement_type = "FACE" /\ statement.data.tag = "FacePTN" ->
            IF seen_objects = <<>>
            THEN <<[name |-> DefaultName, implicit |-> TRUE,
                    refs |-> FaceRefs(statement.data)]>>
            ELSE [seen_objects EXCEPT ![Len(seen_objects)].refs =
                                          @ \o FaceRefs(statement.data)]
      [] OTHER -> seen_objects

RecordStatement(statement) ==
    /\ stmt' = Some(statement)
    /\ seen_v' = IF statement.statement_type = "VERTEX"
                    /\ statement.data.tag = "Number3D"
                 THEN Append(seen_v, statement.data.val) ELSE seen_v
    /\ seen_vn' = IF statement.statement_type = "NORMAL"
                     /\ statement.data.tag = "Number3D"
                  THEN Append(seen_vn, statement.data.val) ELSE seen_vn
    /\ seen_vt' = IF statement.statement_type = "TEXCOORD"
                     /\ statement.data.tag = "Number2D"
                  THEN Append(seen_vt, statement.data.val) ELSE seen_vt
    /\ seen_objects' = SeenObjectsAfter(statement)

\* the loop body with the handler's failure ignored: the loop goes on to the
\* next statement with the objects finalized so far
CompileStep_skips_failure(statement) ==
    /\ \E out \in {compile_statement(Self, statement, results)} :
        /\ cur_obj' = out.self.cur_obj
        /\ position_buffer' = out.self.position_buffer
        /\ normal_buffer' = out.self.normal_buffer
        /\ tex_coord_buffer' = out.self.tex_coord_buffer
        /\ results' = out.results
        /\ ret' = Running
    /\ n_stmt' = n_stmt + 1
    /\ RecordStatement(statement)
    /\ UNCHANGED outside_compiler

\* the loop body for `statement`: the handler's effect on the Compiler and on
\* `results`; on Err the `?` returns it and `results` is dropped, on a panic
\* compile never returns
CompileStep(statement) ==
    /\ \E out \in {compile_statement(Self, statement, results)} :
        /\ cur_obj' = out.self.cur_obj
        /\ position_buffer' = out.self.position_buffer
        /\ normal_buffer' = out.self.normal_buffer
        /\ tex_coord_buffer' = out.self.tex_coord_buffer
        /\ results' = IF out.r.kind = "Ok" THEN out.results ELSE <<>>
        /\ ret' = IF out.r.kind = "Ok" THEN Running ELSE out.r
    /\ n_stmt' = n_stmt + 1
    /\ RecordStatement(statement)
    /\ UNCHANGED outside_compiler

\* the loop has a next statement to fetch
InLoop == ret.kind = "Running" /\ n_stmt < MaxStatements

HandleObject ==
    \E s \in Statements("OBJECT") :
        /\ InLoop
        /\ CompileStep(s)

HandleVertex ==
    \E s \in Statements("VERTEX") :
        /\ InLoop
        /\ CompileStep(s)

HandleNormal ==
    \E s \in Statements("NORMAL") :
        /\ InLoop
        /\ CompileStep(s)

HandleTexCoord ==
    \E s \in Statements("TEXCOORD") :
        /\ InLoop
        /\ CompileStep(s)

HandleFace ==
    \E s \in Statements("FACE") :
        /\ InLoop
        /\ CompileStep(s)

Ignore ==
    \E t \in {"COMMENT", "MTLLIB", "USEMTL", "ILLUM"} :
        \E s \in Statements(t) :
            /\ InLoop
            /\ CompileStep(s)

\* the list is exhausted: clean_up, then Ok(results)
Finish ==
    /\ ret.kind = "Running"
    /\ \E out \in {clean_up(Self, results)} :
        /\ cur_obj' = out.self.cur_obj
        /\ ret' = Ok(out.results)
    /\ results' = <<>>
    /\ UNCHANGED <<position_buffer, normal_buffer, tex_coord_buffer, n_stmt>>
    /\ UNCHANGED history_vars
    /\ UNCHANGED outside_compiler

\* Compiler::from_default_name, then the first lines of compile
CompilerInit ==
    LET c == from_default_name(DefaultName) IN
    /\ cur_obj = c.cur_obj
    /\ position_buffer = c.position_buffer
    /\ normal_buffer = c.normal_buffer
    /\ tex_coord_buffer = c.tex_coord_buffer
    /\ results = <<>>
    /\ ret = Running
    /\ n_stmt = 0
    /\ stmt = None
    /\ seen_v = <<>>
    /\ seen_vn = <<>>
    /\ seen_vt = <<>>
    /\ seen_objects = <<>>

---------------------------------------------------------------------------
(* One Object3d and a caller that keeps calling add_vertex on it *)

VertexDataSet ==
    {vertex_p_from_floats(p) : p \in PosVals}
    \cup {vertex_pn_from_floats(p, n) : p \in PosVals, n \in NormVals}
    \cup {vertex_pt_from_floats(p, t) : p \in PosVals, t \in TexVals}
    \cup {vertex_pnt_from_floats(p, n, t) :
             p \in PosVals, n \in NormVals, t \in TexVals}

ObjectInit ==
    /\ obj = Object3d_from("Test")
    /\ new_vertex = None
    /\ add_result = None
    /\ n_calls = 0

AddVertex ==
    /\ n_calls < MaxCalls
    /\ \E v \in VertexDataSet : \E out \in {add_vertex(obj, v)} :
        /\ obj' = out.obj
        /\ new_vertex' = Some(v)
        /\ add_result' = Some(out.r)
    /\ n_calls' = n_calls + 1
    /\ UNCHANGED outside_object

---------------------------------------------------------------------------
(* Lexer::lex_tokens as a state machine: one step per character read, then  *)
(* the flush at the end of the stream and the return                        *)

\* the characters a stream may hold
Chars == {"\n", "\r", " ", "#", "v", "1", "/", "0xE9"}
LineEndings == {"\n", "\r"}

\* the Lexer's fields as the record the methods work on
LexerSelf ==
    [char_buffer |-> char_buffer, char_position |-> char_position,
     line_number |-> line_number, state |-> state]

\* the loop body for the character cur_char; a panic ends lex_tokens and
\* drops its local token list
LexStep(cur_char) ==
    /\ \E out \in {lex_char(LexerSelf, lexed_tokens, cur_char,
                             overflow_checks)} :
        /\ char_buffer' = out.self.char_buffer
        /\ char_position' = out.self.char_position
        /\ line_number' = out.self.line_number
        /\ state' = out.self.state
        /\ lexed_tokens' = IF out.r.kind = "Ok" THEN out.lexed_tokens ELSE <<>>
        /\ lex_ret' = IF out.r.kind = "Ok" THEN Running ELSE out.r
    /\ stream_read' = Append(stream_read, cur_char)
    /\ UNCHANGED overflow_checks
    /\ UNCHANGED outside_lexer

\* advance_char returned a character of a stream of at most MaxInput
LexChar ==
    \E cur_char \in Chars :
        /\ lex_ret.kind = "Running"
        /\ Len(stream_read) < MaxInput
        /\ LexStep(cur_char)

\* advance_char returned a character of a stream of line endings
LexLineEnding ==
    \E cur_char \in LineEndings :
        /\ lex_ret.kind = "Running"
        /\ Len(stream_read) < MaxLineEndings
        /\ LexStep(cur_char)

\* advance_char returned None: the last flush, then the return
LexEof ==
    /\ lex_ret.kind = "Running"
    /\ \E out \in {process_char_buffer(LexerSelf, lexed_tokens,
                                        overflow_checks)} :
        /\ char_buffer' = out.self.char_buffer
        /\ char_position' = out.self.char_position
        /\ line_number' = out.self.line_number
        /\ lex_ret' = IF out.r.kind = "Ok" THEN Ok(out.lexed_tokens) ELSE out.r
    /\ lexed_tokens' = <<>>
    /\ UNCHANGED <<state, overflow_checks, stream_read>>
    /\ UNCHANGED outside_lexer

\* Lexer::new and the first line of lex_tokens, in the build `checks`
LexerInit(checks) ==
    /\ char_buffer = Lexer_new.char_buffer
    /\ char_position = Lexer_new.char_position
    /\ line_number = Lexer_new.line_number
    /\ state = Lexer_new.state
    /\ lexed_tokens = <<>>
    /\ lex_ret = Running
    /\ overflow_checks = checks
    /\ stream_read = <<>>

---------------------------------------------------------------------------
(* VertexFormat::from_indices called on index triples *)

IndexTriples == (0..MaxIndex) \X (0..MaxIndex) \X (0..MaxIndex)

FormatInit ==
    /\ indices = None
    /\ inferred = None

FromIndices ==
    /\ \E triple \in IndexTriples :
        /\ indices' = Some(triple)
        /\ inferred' = Some(VertexFormat_from_indices(triple))
    /\ UNCHANGED outside_format

---------------------------------------------------------------------------
(* A source text taken through the three stages: the token list of          *)
(* lex_tokens is handed to parse_tokens, its statement list to compile      *)

\* the decimal text of a u64
DigitChar(n) == <<"0", "1", "2", "3", "4", "5", "6", "7", "8", "9">>[n + 1]
RECURSIVE u64_to_string(_)
u64_to_string(n) ==
    IF n < 10 THEN <<DigitChar(n)>>
    ELSE u64_to_string(n \div 10) \o <<DigitChar(n % 10)>>

\* a line of the text: words separated by one blank, ended by "\n"
RECURSIVE Line(_)
Line(words) ==
    IF Len(words) = 1 THEN words[1] \o <<"\n">>
    ELSE words[1] \o <<" ">> \o Line(Tail(words))

\* the lines "vn k k k" and "vt k k" for k = 1..n
RECURSIVE NormalLines(_)
NormalLines(n) ==
    IF n = 0 THEN <<>>
    ELSE NormalLines(n - 1)
         \o Line(<<<<"v", "n">>, u64_to_string(n), u64_to_string(n),
                   u64_to_string(n)>>)
RECURSIVE TexCoordLines(_)
TexCoordLines(n) ==
    IF n = 0 THEN <<>>
    ELSE TexCoordLines(n - 1)
         \o Line(<<<<"v", "t">>, u64_to_string(n), u64_to_string(n)>>)

\* a reference written position/texcoord/normal
FieldText(n, as_empty) == IF n = 0 /\ as_empty THEN <<>> ELSE u64_to_string(n)
PolygonText(ref, as_empty) ==
    FieldText(ref[1], as_empty) \o <<"/">> \o FieldText(ref[2], as_empty)
        \o <<"/">> \o FieldText(ref[3], as_empty)

\* the text: one position, MaxRef normals, MaxRef texcoords, and the face
SourceText(refs, as_empty) ==
    Line(<<<<"v">>, <<"1">>, <<"1">>, <<"1">>>>)
    \o NormalLines(MaxRef) \o TexCoordLines(MaxRef)
    \o Line(<<<<"f">>, PolygonText(refs[1], as_empty),
              PolygonText(refs[2], as_empty), PolygonText(refs[3], as_empty)>>)

\* the references a face of the text may hold: the position declared, and
\* any texcoord and normal declared or absent
SourceRefs == {1} \X (0..MaxRef) \X (0..MaxRef)

RunLexer ==
    /\ lexed = None
    /\ lexed' = Some(lex_tokens(source, overflow_checks))
    /\ UNCHANGED <<face, absent_as_empty, source, parsed, compiled>>
    /\ UNCHANGED outside_pipeline

RunParser ==
    /\ IsSome(lexed)
    /\ Unwrap(lexed).kind = "Ok"
    /\ parsed = None
    /\ parsed' = Some(parse_tokens(Unwrap(lexed).val))
    /\ UNCHANGED <<face, absent_as_empty, source, lexed, compiled>>
    /\ UNCHANGED outside_pipeline

RunCompiler ==
    /\ IsSome(parsed)
    /\ Unwrap(parsed).kind = "Ok"
    /\ compiled = None
    /\ compiled' = Some(compile(from_default_name(DefaultName),
                                Unwrap(parsed).val))
    /\ UNCHANGED <<face, absent_as_empty, source, lexed, parsed>>
    /\ UNCHANGED outside_pipeline

\* the text of the face `refs`, not yet lexed
PipelineInit(refs, as_empty) ==
    /\ face = refs
    /\ absent_as_empty = as_empty
    /\ source = SourceText(refs, as_empty)
    /\ lexed = None
    /\ parsed = None
    /\ compiled = None

\* no text
PipelineIdle ==
    /\ face = <<>>
    /\ absent_as_empty = FALSE
    /\ source = <<>>
    /\ lexed = None
    /\ parsed = None
    /\ compiled = None

---------------------------------------------------------------------------
(* Lexer::lex_tokens called on a short text                                 *)

\* the characters of a short text: of numbers, of polygons, letters of "nan"
\* and "inf" in either case, the comment mark and the blank
RunChars == {"1", "/", "+", "-", ".", "e", "n", "a", "i", "f", "N", "#", " "}

\* the words of TokenType::from_str, and texts longer than MaxRun
Words ==
    {<<"c", "o", "m", "m", "e", "n", "t">>, <<"m", "t", "l", "l", "i", "b">>,
     <<"o">>, <<"v">>, <<"v", "n">>, <<"v", "t">>,
     <<"u", "s", "e", "m", "t", "l">>, <<"f">>, <<"s">>,
     <<"i", "n", "f", "i", "n", "i", "t", "y">>,
     <<"-", "I", "n", "f", "i", "n", "i", "t", "y">>,
     <<"1", "/", "1", "/", "1", "/", "1">>,
     <<"1", "1", "/", "1", "/", "1", "1">>,
     <<"v", "n", "t">>, <<"V">>, <<"a", "s", "d", "f">>}

Texts == UNION {[1..k -> RunChars] : k \in 0..MaxRun} \cup Words

\* the text `text`, not yet lexed
TextInit(text) ==
    /\ face = <<>>
    /\ absent_as_empty = FALSE
    /\ source = text
    /\ lexed = None
    /\ parsed = None
    /\ compiled = None

---------------------------------------------------------------------------
(* Parser::parse_tokens as a state machine: one step per token of the list, *)
(* then the return                                                          *)

\* the payloads of the tokens a list may hold
NumberVals == {F64("finite", <<1, 0>>), F64("finite", <<2, 0>>)}
PolygonVals == {<<1, 0, 0>>, <<1, 2, 3>>}
StringVals == {<<"a">>}
CommentVals == {<<"#", "c">>}
LineBreakVals == {<<"\n">>}

\* the type and payload of the tokens the lexer makes: a header word without
\* payload, a comment, a number, a polygon, a string, a separator, a line
\* break
TokenKinds ==
    {<<token_type, TokenNone>> : token_type \in StatementTypes \cup {"SEPARATOR"}}
    \cup {<<"COMMENT", TokenString(text)>> : text \in CommentVals}
    \cup {<<"NUMBER", TokenNumber(x)>> : x \in NumberVals}
    \cup {<<"POLYGON", TokenVertexPTN(ref[1], ref[2], ref[3])>> :
             ref \in PolygonVals}
    \cup {<<"STRING", TokenString(text)>> : text \in StringVals}
    \cup {<<"LINEBREAK", TokenString(text)>> : text \in LineBreakVals}

\* the line of the next token, one more than the line breaks before it, and
\* its column, here its place in the list
NextLine ==
    1 + Cardinality({i \in 1..Len(tokens_read) :
                        tokens_read[i].token_type = "LINEBREAK"})
NextColumn == 1 + Len(tokens_read)

\* the body of the for loop on the token cur_token; an Err ends parse_tokens
\* and drops its local statement list
ParseStep(cur_token) ==
    /\ \E out \in {parse_token(parser, cur_token)} :
        /\ parser' = out.self
        /\ parsed_statements' =
              IF out.r.kind = "Err" THEN <<>>
              ELSE IF IsSome(out.r.val)
              THEN Append(parsed_statements, Unwrap(out.r.val))
              ELSE parsed_statements
        /\ parse_ret' = IF out.r.kind = "Err" THEN Err(out.r.msg) ELSE Running
    /\ tokens_read' = Append(tokens_read, cur_token)
    /\ UNCHANGED outside_parser

\* the list has a next token, of at most MaxTokens
ParseToken ==
    \E kind \in TokenKinds :
        /\ parse_ret.kind = "Running"
        /\ Len(tokens_read) < MaxTokens
        /\ ParseStep(Token_from(kind[1], kind[2], NextLine, NextColumn))

\* the list is exhausted: Ok(parsed_statements)
ParseEnd ==
    /\ parse_ret.kind = "Running"
    /\ parse_ret' = Ok(parsed_statements)
    /\ UNCHANGED <<parser, parsed_statements, tokens_read>>
    /\ UNCHANGED outside_parser

\* Parser::new and the first line of parse_tokens
ParserInit ==
    /\ parser = Parser_new
    /\ parsed_statements = <<>>
    /\ parse_ret = Running
    /\ tokens_read = <<>>

---------------------------------------------------------------------------
(* Compiler::compile called twice on one Compiler: compile takes &mut self, *)
(* so the Compiler outlives the call                                        *)

\* the statements of the two lists
ReuseStatements ==
    {Statement_from("VERTEX", DataNumber3D(t), 1, 0) : t \in PosVals}
    \cup {Statement_from("FACE",
              DataFacePTN(<<1, 0, 0>>, <<1, 0, 0>>, <<1, 0, 0>>), 1, 0),
          Statement_from("OBJECT", DataString("a"), 1, 0)}
StatementLists == UNION {[1..k -> ReuseStatements] : k \in 0..MaxList}

CompileFirst ==
    /\ first_call = None
    /\ \E statements \in StatementLists :
        \E out \in {compile_loop(compiler, statements, <<>>)} :
            /\ compiler' = out.self
            /\ first_call' = Some([statements |-> statements, r |-> out.r])
    /\ UNCHANGED second_call
    /\ UNCHANGED outside_reuse

\* the first call returned Ok or Err, and compile is called again
CompileSecond ==
    /\ IsSome(first_call)
    /\ Unwrap(first_call).r.kind \in {"Ok", "Err"}
    /\ second_call = None
    /\ \E statements \in StatementLists :
        \E out \in {compile_loop(compiler, statements, <<>>)} :
            /\ compiler' = out.self
            /\ second_call' = Some([statements |-> statements, r |-> out.r])
    /\ UNCHANGED first_call
    /\ UNCHANGED outside_reuse

\* Compiler::from_default_name
ReuseInit ==
    /\ compiler = from_default_name(DefaultName)
    /\ first_call = None
    /\ second_call = None

---------------------------------------------------------------------------
(* Specifications *)

\* the compiler and the object store do no arithmetic that can overflow
Init ==
    /\ CompilerInit
    /\ ObjectInit
    /\ LexerInit(TRUE)
    /\ FormatInit
    /\ PipelineIdle
    /\ ParserInit
    /\ ReuseInit

Next ==
    \/ HandleObject
    \/ HandleVertex
    \/ HandleNormal
    \/ HandleTexCoord
    \/ HandleFace
    \/ Ignore
    \/ Finish

\* one compilation by a fresh Compiler
Spec == Init /\ [][Next]_vars

ObjectNext == AddVertex

\* one Object3d driven through add_vertex
ObjectSpec == Init /\ [][ObjectNext]_vars

FormatNext == FromIndices

\* VertexFormat::from_indices called on any index triple
FormatSpec == Init /\ [][FormatNext]_vars

\* the text is ASCII, so no build differs from another on it
FaceInit ==
    /\ CompilerInit
    /\ ObjectInit
    /\ LexerInit(TRUE)
    /\ FormatInit
    /\ ParserInit
    /\ ReuseInit
    /\ \E a \in SourceRefs, b \in SourceRefs, c \in SourceRefs :
          \E as_empty \in BOOLEAN : PipelineInit(<<a, b, c>>, as_empty)

FaceNext ==
    \/ RunLexer
    \/ RunParser
    \/ RunCompiler

\* the text of one face taken through lexer, parser and compiler
FaceSpec == FaceInit /\ [][FaceNext]_vars

\* the texts are ASCII, so no build differs from another on them
TextSpecInit ==
    /\ CompilerInit
    /\ ObjectInit
    /\ LexerInit(TRUE)
    /\ FormatInit
    /\ ParserInit
    /\ ReuseInit
    /\ \E text \in Texts : TextInit(text)

TextNext == RunLexer

\* one lex_tokens call by a fresh Lexer on a short text
TextSpec == TextSpecInit /\ [][TextNext]_vars

ReuseNext ==
    \/ CompileFirst
    \/ CompileSecond

\* two compile calls on one Compiler
ReuseSpec == Init /\ [][ReuseNext]_vars

ParserNext ==
    \/ ParseToken
    \/ ParseEnd

\* one parse_tokens call by a fresh Parser on a list of at most MaxTokens
ParserSpec == Init /\ [][ParserNext]_vars

\* a build with overflow checks (dev profile) or without them (release)
LexInit ==
    /\ CompilerInit
    /\ ObjectInit
    /\ \E checks \in BOOLEAN : LexerInit(checks)
    /\ FormatInit
    /\ ParserInit
    /\ ReuseInit
    /\ PipelineIdle

LexNext ==
    \/ LexChar
    \/ LexEof

\* one lex_tokens call by a fresh Lexer on a stream of at most MaxInput bytes
LexSpec == LexInit /\ [][LexNext]_vars

LineEndingNext ==
    \/ LexLineEnding
    \/ LexEof

\* one lex_tokens call on a stream made of line endings only
LineEndingSpec == LexInit /\ [][LineEndingNext]_vars

---------------------------------------------------------------------------
(* What the properties say about the input, stated from the input alone *)

\* the layout a reference asks for: which of its texcoord and normal are present
Layout(ref) ==
    CASE ref[2] = 0 /\ ref[3] = 0 -> "VertexP"
      [] ref[2] = 0 /\ ref[3] # 0 -> "VertexPN"
      [] ref[2] # 0 /\ ref[3] = 0 -> "VertexPT"
      [] OTHER -> "VertexPNT"

\* every index of the reference is within the v / vt / vn statements seen
InRange(ref) ==
    /\ ref[1] <= Len(seen_v)
    /\ ref[2] <= Len(seen_vt)
    /\ ref[3] <= Len(seen_vn)

\* the reference resolved by 1-based lookup
Resolved(ref) ==
    [pos |-> seen_v[ref[1]],
     normal |-> IF ref[3] # 0 THEN <<seen_vn[ref[3]]>> ELSE <<>>,
     tex_coord |-> IF ref[2] # 0 THEN <<seen_vt[ref[2]]>> ELSE <<>>]

Attributes(vertex) ==
    [pos |-> vertex.pos, normal |-> vertex.normal,
     tex_coord |-> vertex.tex_coord]

\* the statement handled last is a FACE with a face payload
LastIsFace ==
    /\ IsSome(stmt)
    /\ Unwrap(stmt).statement_type = "FACE"
    /\ Unwrap(stmt).data.tag = "FacePTN"

\* its three references
LastFace == FaceRefs(Unwrap(stmt).data)

\* the references of the object that face belongs to, the face's own included
CurRefs == seen_objects[Len(seen_objects)].refs

\* the last call of add_vertex returned Ok / Err
LastAdd(kind) == IsSome(add_result) /\ Unwrap(add_result).kind = kind

FormatChangeMsg == "Compilation error: Unexpected vertex format change"

---------------------------------------------------------------------------
(* Properties *)

\* C1: after any sequence of add_vertex calls, successful or failing, on an
\* object made by Object3d::from, every element of index_buffer is strictly
\* less than the length of vertex_buffer.
C1_IndexInRange ==
    \A k \in 1..Len(obj.index_buffer) :
        obj.index_buffer[k] < Len(obj.vertex_buffer)

\* a failing call was followed by a successful one, and two vertices are stored
C1_Witness ==
    /\ LastAdd("Ok")
    /\ Len(obj.index_buffer) < n_calls
    /\ Len(obj.vertex_buffer) >= 2

\* C2: a successful add_vertex appends exactly one entry to index_buffer. If
\* some vertex_buffer element equals the candidate, the entry is the position
\* of the first such element and vertex_buffer is unchanged; otherwise the
\* candidate is appended to vertex_buffer, the entry is its new last position
\* and the earlier elements keep their positions.
C2_AddVertexStep ==
    (n_calls' = n_calls + 1 /\ Unwrap(add_result').kind = "Ok") =>
        LET v == Unwrap(new_vertex')
            old == obj.vertex_buffer
            equal == {i \in 1..Len(old) : old[i] = v}
            entry == obj'.index_buffer[Len(obj'.index_buffer)]
        IN /\ Len(obj'.index_buffer) = Len(obj.index_buffer) + 1
           /\ SubSeq(obj'.index_buffer, 1, Len(obj.index_buffer))
                = obj.index_buffer
           /\ IF equal # {}
              THEN /\ obj'.vertex_buffer = old
                   /\ entry + 1 \in equal
                   /\ \A i \in equal : entry + 1 <= i
              ELSE /\ obj'.vertex_buffer = Append(old, v)
                   /\ entry = Len(obj'.vertex_buffer) - 1
C2_AddVertex == [][C2_AddVertexStep]_vars

\* the same vertex was added twice at position 1, after another vertex
C2_Witness ==
    /\ obj.index_buffer = <<0, 1, 1>>
    /\ Len(obj.vertex_buffer) = 2

\* C3: in the output of a successful compile, every element of an object's
\* vertex_buffer has the object's format.
C3_UniformFormat ==
    ret.kind = "Ok" =>
        \A i \in 1..Len(ret.val) :
            \A k \in 1..Len(ret.val[i].vertex_buffer) :
                ret.val[i].vertex_buffer[k].format = ret.val[i].format

\* a successful compile whose output holds an object with two vertices
C3_Witness ==
    /\ ret.kind = "Ok"
    /\ \E i \in 1..Len(ret.val) : Len(ret.val[i].vertex_buffer) = 2

\* C4: once add_vertex has set an object's format to a value other than
\* Unknown, no later call, successful or failing, changes it; while the format
\* is Unknown a successful call sets it to the candidate's format.
C4_FormatStep ==
    /\ obj.format # "Unknown" => obj'.format = obj.format
    /\ (obj.format = "Unknown" /\ n_calls' = n_calls + 1
            /\ Unwrap(add_result').kind = "Ok")
         => obj'.format = Unwrap(new_vertex').format
C4_FormatKept == [][C4_FormatStep]_vars

\* the format is set and a call with another format has just failed
C4_Witness ==
    /\ LastAdd("Err")
    /\ obj.format # "Unknown"
    /\ Unwrap(new_vertex).format # obj.format
    /\ n_calls >= 3

\* what add_vertex returns for a candidate of another format than the one the
\* current object has established
MismatchRejected ==
    \A v \in VertexDataSet :
        (IsSome(cur_obj) /\ Unwrap(cur_obj).format \notin {"Unknown", v.format})
        => add_vertex(Unwrap(cur_obj), v).r = Err(FormatChangeMsg)

\* C5, as amended: add_vertex with a candidate whose format differs from the
\* object's established format fails with a compile error; so a face with a
\* reference that asks for a layout other than the one the object's earlier
\* references established (position-only references followed, in the same
\* object, by position+normal references) makes compile return the
\* format-change error, provided the references of that face up to that one
\* are within the v / vn / vt statements processed so far.
C5_FormatChangeFails ==
    /\ MismatchRejected
    /\ (/\ LastIsFace
        /\ \A j \in 1..3 : LastFace[j][1] # 0
        /\ \E k \in (Len(CurRefs) - 2)..Len(CurRefs) :
              /\ Layout(CurRefs[k]) # Layout(CurRefs[1])
              /\ \A j \in (Len(CurRefs) - 2)..k : InRange(CurRefs[j]))
       => ret = Err(FormatChangeMsg)

\* C5, as stated: a face of position-only references followed, in the same
\* object, by a face of position+normal references makes compile return the
\* format-change error, whatever the indices of the second face are.
C5_AsStated ==
    /\ MismatchRejected
    /\ (/\ LastIsFace
        /\ Len(CurRefs) >= 6
        /\ \A k \in (Len(CurRefs) - 5)..(Len(CurRefs) - 3) :
              Layout(CurRefs[k]) = "VertexP"
        /\ \A k \in (Len(CurRefs) - 2)..Len(CurRefs) :
              CurRefs[k][1] # 0 /\ Layout(CurRefs[k]) = "VertexPN")
       => ret = Err(FormatChangeMsg)

\* a face of position-only references was followed, in the same object, by a
\* face of position+normal references, and compile returned Err
C5_Witness ==
    /\ LastIsFace
    /\ ret.kind = "Err"
    /\ Len(CurRefs) = 6
    /\ \A k \in 1..3 : Layout(CurRefs[k]) = "VertexP"
    /\ \A k \in 4..6 : Layout(CurRefs[k]) = "VertexPN"

\* C6: in a successful compile, every output object has one index per face
\* reference attributed to it, and vertex_buffer[index_buffer[k]] is the k-th
\* reference resolved by 1-based lookup: its position, its normal exactly when
\* the normal index is non-zero, its texcoord exactly when the texcoord index is
\* non-zero. References that resolve to the same vertex share one slot.
C6_FacesResolved ==
    ret.kind = "Ok" =>
        /\ Len(ret.val) = Len(seen_objects)
        /\ \A i \in 1..Len(ret.val) :
            LET o == ret.val[i]
                refs == seen_objects[i].refs
            IN /\ Len(o.index_buffer) = Len(refs)
               /\ \A k \in 1..Len(refs) :
                     Attributes(o.vertex_buffer[o.index_buffer[k] + 1])
                        = Resolved(refs[k])
               /\ \A j, k \in 1..Len(refs) :
                     Resolved(refs[j]) = Resolved(refs[k])
                        => o.index_buffer[j] = o.index_buffer[k]

\* two faces over the same two positions: six indices, two vertices
C6_Witness ==
    /\ ret.kind = "Ok"
    /\ \E i \in 1..Len(ret.val) :
          /\ Len(ret.val[i].index_buffer) = 6
          /\ Len(ret.val[i].vertex_buffer) = 2

\* C7: the output of a successful compile holds exactly one object per OBJECT
\* statement, named by it and in statement order, preceded by exactly one
\* object with the default name iff a FACE statement comes before the first
\* OBJECT statement; with neither FACE nor OBJECT the output is empty.
C7_ObjectsPerStatement ==
    ret.kind = "Ok" =>
        /\ Len(ret.val) = Len(seen_objects)
        /\ \A i \in 1..Len(ret.val) : ret.val[i].name = seen_objects[i].name
        /\ \A i \in 1..Len(ret.val) :
              seen_objects[i].implicit => ret.val[i].name = DefaultName /\ i = 1

\* a face before the first of two OBJECT statements: three objects
C7_Witness ==
    /\ ret.kind = "Ok"
    /\ Len(ret.val) = 3
    /\ seen_objects[1].implicit
    /\ ret.val[2].name # ret.val[3].name

\* C8: buffers are per object. A FACE statement changes only the current
\* object; an object moved to the output list is never changed afterwards; a
\* new object stores its vertices itself, its indices starting at 0 and
\* covering exactly its own vertex_buffer, also when an earlier object already
\* holds the same vertex value.
C8_PerObjectStep ==
    /\ ret'.kind = "Running" =>
          /\ Len(results') >= Len(results)
          /\ SubSeq(results', 1, Len(results)) = results
    /\ ret'.kind = "Ok" /\ ret.kind = "Running" =>
          /\ Len(ret'.val) >= Len(results)
          /\ SubSeq(ret'.val, 1, Len(results)) = results
          /\ \A i \in 1..Len(ret'.val) :
                LET o == ret'.val[i] IN
                /\ {o.index_buffer[k] : k \in 1..Len(o.index_buffer)}
                      = 0..(Len(o.vertex_buffer) - 1)
                /\ o.index_buffer # <<>> =>
                      /\ o.index_buffer[1] = 0
                      /\ Attributes(o.vertex_buffer[1])
                            = Resolved(seen_objects[i].refs[1])
    /\ (n_stmt' = n_stmt + 1 /\ Unwrap(stmt').statement_type = "FACE"
            /\ ret'.kind = "Running") =>
          /\ results' = results
          /\ position_buffer' = position_buffer
          /\ normal_buffer' = normal_buffer
          /\ tex_coord_buffer' = tex_coord_buffer
C8_PerObject == [][C8_PerObjectStep]_vars

\* two output objects hold the same vertex value, each at its own index 0
C8_Witness ==
    /\ ret.kind = "Ok"
    /\ Len(ret.val) = 2
    /\ ret.val[1].index_buffer # <<>>
    /\ ret.val[2].index_buffer # <<>>
    /\ \E k \in 1..Len(ret.val[1].vertex_buffer) :
          ret.val[1].vertex_buffer[k] = ret.val[2].vertex_buffer[1]

\* C9: a FACE with an index beyond the v / vn / vt statements processed before
\* it makes compile fail with a compile error (an Err) and yield no output.
C9_OutOfRangeIsErr ==
    (/\ LastIsFace
     /\ \A j \in 1..3 : LastFace[j][1] # 0
     /\ \E j \in 1..3 : ~InRange(LastFace[j]))
    => ret.kind = "Err"

\* C10: a FACE in which a reference has position index 0 makes compile fail
\* with a compile error (an Err).
C10_ZeroPositionIsErr ==
    (LastIsFace /\ \E j \in 1..3 : LastFace[j][1] = 0) => ret.kind = "Err"

\* C11: compilation is fail-fast with no partial result. When the handler of
\* a statement fails, compile ends at that statement without an object list,
\* the objects finalized before it included; nothing is processed after the
\* failure, and an object list is only returned from a loop that ran through.
C11_FailFastStep ==
    /\ (n_stmt' = n_stmt + 1
          /\ compile_statement(Self, Unwrap(stmt'), results).r.kind # "Ok")
        => /\ ret'.kind \in {"Err", "Panic"}
           /\ ret'.val = <<>>
           /\ results' = <<>>
    /\ ret.kind \in {"Err", "Panic"} => vars' = vars
    /\ ret'.kind = "Ok" => ret.kind = "Running"
C11_FailFast == [][C11_FailFastStep]_vars

\* compile returned Err at the third statement of a longer list, after an
\* object had been finalized into the output list
C11_Witness ==
    /\ ret.kind = "Err"
    /\ Len(seen_objects) >= 2
    /\ n_stmt = 3


\* the four formats a vertex can have
KnownFormats == {"VertexP", "VertexPN", "VertexPT", "VertexPNT"}

\* C12, as amended: in the output of a successful compile, every object that
\* a face was attributed to has one of the formats Position, PositionNormal,
\* PositionTexCoord, PositionNormalTexCoord; an object has the format Unknown
\* exactly when no face was attributed to it, and then its buffers are empty.
C12_FormatKnownIfFaces ==
    ret.kind = "Ok" =>
        \A i \in 1..Len(ret.val) :
            /\ seen_objects[i].refs # <<>> => ret.val[i].format \in KnownFormats
            /\ seen_objects[i].refs = <<>> =>
                  /\ ret.val[i].format = "Unknown"
                  /\ ret.val[i].vertex_buffer = <<>>
                  /\ ret.val[i].index_buffer = <<>>

\* C12, as stated: no object in the output of a successful compile has the
\* format Unknown.
C12_AsStated ==
    ret.kind = "Ok" =>
        \A i \in 1..Len(ret.val) : ret.val[i].format \in KnownFormats

\* a successful compile with an object that has faces and one that has none
C12_Witness ==
    /\ ret.kind = "Ok"
    /\ \E i, j \in 1..Len(ret.val) :
          /\ ret.val[i].format \in KnownFormats
          /\ ret.val[i].index_buffer # <<>>
          /\ ret.val[j].format = "Unknown"


\* the tokens lex_tokens has emitted so far, or has returned
Emitted == IF lex_ret.kind = "Ok" THEN lex_ret.val ELSE lexed_tokens

\* the LINEBREAK tokens among the first n emitted tokens
LineBreaksBefore(n) ==
    Cardinality({j \in 1..n : Emitted[j].token_type = "LINEBREAK"})

\* lex_tokens has returned the tokens of the stream `text`
Lexed(text) == lex_ret.kind = "Ok" /\ stream_read = text

MixedLineEndings ==
    <<"\r", "\n", "\r", "\n", "\n", "\r", "\n", "\n", "\r", "\r">>

\* C16: a stream made of line-ending characters only lexes to LINEBREAK
\* tokens only; "\n", "\r" and "\n\r" each give exactly one LINEBREAK token,
\* and "\r\n\r\n\n\r\n\n\r\r" gives exactly seven, on the lines 1..7 in order.
C16_LineEndingsOnly ==
    /\ lex_ret.kind # "Panic"
    /\ (\A i \in 1..Len(stream_read) : stream_read[i] \in LineEndings)
         => \A k \in 1..Len(Emitted) : Emitted[k].token_type = "LINEBREAK"
    /\ \A text \in {<<"\n">>, <<"\r">>, <<"\n", "\r">>} :
         Lexed(text) =>
            /\ Len(lex_ret.val) = 1
            /\ lex_ret.val[1].token_type = "LINEBREAK"
    /\ Lexed(MixedLineEndings) =>
         /\ Len(lex_ret.val) = 7
         /\ \A k \in 1..7 :
               /\ lex_ret.val[k].token_type = "LINEBREAK"
               /\ lex_ret.val[k].line_number = k

\* lex_tokens has returned the tokens of "\r\n\r\n\n\r\n\n\r\r"
C16_Witness ==
    /\ Lexed(MixedLineEndings)
    /\ Len(lex_ret.val) = 7

\* C17: each of the two-character streams "\r\n" and "\n\r" lexes to exactly
\* one LINEBREAK token: the second character is folded into the token of the
\* first, one logical line break.
C17_TwoCharLineBreak ==
    \A text \in {<<"\r", "\n">>, <<"\n", "\r">>} :
        Lexed(text) =>
            /\ Len(lex_ret.val) = 1
            /\ lex_ret.val[1].token_type = "LINEBREAK"

\* C18: the payload of every emitted LINEBREAK token is "\n", "\r" or "\n\r".
C18_OneBreakPerToken ==
    \A k \in 1..Len(Emitted) :
        Emitted[k].token_type = "LINEBREAK" =>
            Emitted[k].data.val \in {<<"\n">>, <<"\r">>, <<"\n", "\r">>}

\* C19: every emitted token's line number is 1 plus the number of LINEBREAK
\* tokens emitted before it, and the line counter is 1 plus the number of
\* LINEBREAK tokens emitted so far.
C19_LineNumbers ==
    /\ \A k \in 1..Len(Emitted) :
          Emitted[k].line_number = 1 + LineBreaksBefore(k - 1)
    /\ lex_ret.kind # "Panic" =>
          line_number = 1 + LineBreaksBefore(Len(Emitted))

\* a keyword on line 3, after two LINEBREAK tokens and something on line 2
C19_Witness ==
    /\ lex_ret.kind = "Ok"
    /\ Len(lex_ret.val) >= 4
    /\ lex_ret.val[Len(lex_ret.val)].token_type = "VERTEX"
    /\ lex_ret.val[Len(lex_ret.val)].line_number = 3
    /\ \E k \in 1..Len(lex_ret.val) :
          /\ lex_ret.val[k].token_type # "LINEBREAK"
          /\ lex_ret.val[k].line_number = 2

\* C20: for every stream of bytes, an emitted token's column is the 1-based
\* position of its first character within its line, counting the characters
\* read since the last emitted LINEBREAK token: char_position less the number
\* of characters of the run, plus 1. It is at least 1, and the subtraction
\* never underflows.
C20_ColumnStep ==
    /\ lex_ret'.kind # "Panic"
    /\ Len(Emitted') = Len(Emitted) + 1 =>
          /\ Emitted'[Len(Emitted')].line_position
                = char_position - Len(char_buffer) + 1
          /\ Emitted'[Len(Emitted')].line_position >= 1
C20_Column == [][C20_ColumnStep]_vars


IgnoredTypes == {"COMMENT", "MTLLIB", "ILLUM", "USEMTL"}

\* C15: a COMMENT, MTLLIB, ILLUM or USEMTL statement leaves the accumulation
\* buffers, the current object and the output list as they are, and compile
\* goes on; so the statements around it are compiled as they would be
\* without it.
C15_IgnoredStep ==
    (n_stmt' = n_stmt + 1 /\ Unwrap(stmt').statement_type \in IgnoredTypes)
    => /\ cur_obj' = cur_obj
       /\ position_buffer' = position_buffer
       /\ normal_buffer' = normal_buffer
       /\ tex_coord_buffer' = tex_coord_buffer
       /\ results' = results
       /\ ret' = ret
       /\ ret'.kind = "Running"
C15_Ignored == [][C15_IgnoredStep]_vars

\* an ignored statement followed the start of a second object, after an
\* object with a face had been finalized, and the compile succeeded
C15_Witness ==
    /\ ret.kind = "Ok"
    /\ IsSome(stmt)
    /\ Unwrap(stmt).statement_type \in IgnoredTypes
    /\ Len(ret.val) = 2
    /\ ret.val[1].index_buffer # <<>>


\* C13: for every reference with a non-zero position index, the inferred
\* format is a function of which of its texcoord and normal indices are
\* non-zero: Position for neither, PositionNormal for the normal only,
\* PositionTexCoord for the texcoord only, PositionNormalTexCoord for both;
\* it is never Unknown.
C13_FormatInference ==
    (IsSome(indices) /\ Unwrap(indices)[1] # 0) =>
        LET texcoord == Unwrap(indices)[2]
            normal == Unwrap(indices)[3]
            format == Unwrap(inferred)
        IN  /\ format \in KnownFormats
            /\ format = "VertexP" <=> (texcoord = 0 /\ normal = 0)
            /\ format = "VertexPN" <=> (texcoord = 0 /\ normal # 0)
            /\ format = "VertexPT" <=> (texcoord # 0 /\ normal = 0)
            /\ format = "VertexPNT" <=> (texcoord # 0 /\ normal # 0)

\* the format of a reference with a normal index and no texcoord index
C13_Witness ==
    /\ indices = Some(<<3, 0, 2>>)
    /\ inferred = Some("VertexPN")


\* the float the text "k" lexes to
Float(k) == F64("finite", Decimal(k, 0))

\* what the k-th reference of the face asks for, read from the text: the
\* second field is the texcoord, the third the normal
Asked(k) ==
    [pos |-> <<Float(1), Float(1), Float(1)>>,
     normal |-> IF face[k][3] = 0 THEN None
                ELSE Some(<<Float(face[k][3]), Float(face[k][3]),
                            Float(face[k][3])>>),
     tex_coord |-> IF face[k][2] = 0 THEN None
                   ELSE Some(<<Float(face[k][2]), Float(face[k][2])>>)]

\* the POLYGON tokens of a token list, in order
Polygons(tokens) == SelectSeq(tokens, LAMBDA t : t.token_type = "POLYGON")

\* C14: of each of the three triples (a, b, c) of a face, in order, the second
\* component is used only as the index into the texcoord buffer and the
\* third only as the index into the normal buffer; lexer, parser and compiler
\* pass them on in that order.
C14_SourceOrder ==
    /\ (IsSome(lexed) /\ Unwrap(lexed).kind = "Ok") =>
          LET polygons == Polygons(Unwrap(lexed).val) IN
          /\ Len(polygons) = 3
          /\ \A k \in 1..3 : polygons[k].data = TokenVertexPTN(face[k][1],
                                                    face[k][2], face[k][3])
    /\ (IsSome(parsed) /\ Unwrap(parsed).kind = "Ok") =>
          LET statements == Unwrap(parsed).val IN
          statements[Len(statements)].data
              = DataFacePTN(face[1], face[2], face[3])
    /\ (IsSome(compiled) /\ Unwrap(compiled).kind = "Ok") =>
          LET objects == Unwrap(compiled).val IN
          /\ Len(objects) = 1
          /\ Len(objects[1].index_buffer) = 3
          /\ \A k \in 1..3 :
                Attributes(objects[1].vertex_buffer[
                               objects[1].index_buffer[k] + 1]) = Asked(k)

\* a face whose references take texcoord 1 with normal 2, and texcoord 2 with
\* normal 1, was compiled
C14_Witness ==
    /\ IsSome(compiled)
    /\ Unwrap(compiled).kind = "Ok"
    /\ face[1] = <<1, 1, 2>>
    /\ face[2] = <<1, 2, 1>>
    /\ absent_as_empty


---------------------------------------------------------------------------
(* The lexer's classification of a character run *)

\* the tokens lex_tokens returned for the text
LexedTokens == Unwrap(lexed).val
TextLexed == IsSome(lexed) /\ Unwrap(lexed).kind = "Ok"

\* a text that is one run of the Token state: no blank, no line ending, no '#'
IsRun(text) ==
    /\ text # <<>>
    /\ \A i \in 1..Len(text) : text[i] \notin {" ", "\t", "\n", "\r", "#"}

IgnoringCase(text) == [i \in 1..Len(text) |-> to_ascii_lowercase(text[i])]
Signs == {<<>>, <<"+">>, <<"-">>}

\* the texts that name a NaN, and those that name an infinity
IsNaNText(text) ==
    \E sign \in Signs : IgnoringCase(text) = sign \o <<"n", "a", "n">>
IsInfText(text) ==
    \E sign \in Signs :
        \/ IgnoringCase(text) = sign \o <<"i", "n", "f">>
        \/ IgnoringCase(text)
              = sign \o <<"i", "n", "f", "i", "n", "i", "t", "y">>

\* C21: a run whose text parses as NaN never becomes a NUMBER token: it falls
\* through the polygon rule to a STRING token carrying the text, and no
\* NUMBER token of any text carries NaN.
C21_NaNNotNumber ==
    TextLexed =>
        /\ \A i \in 1..Len(LexedTokens) :
              LexedTokens[i].token_type = "NUMBER" =>
                  LexedTokens[i].data.val[1].class # "nan"
        /\ IsNaNText(source) =>
              LexedTokens = <<Token_from("STRING", TokenString(source), 1, 1)>>

\* the text "-Nan" was lexed to one STRING token
C21_Witness ==
    /\ TextLexed
    /\ source = <<"-", "N", "a", "n">>
    /\ Len(LexedTokens) = 1
    /\ LexedTokens[1].token_type = "STRING"

\* C22: a run is a NUMBER token only if it parses as a finite number: a
\* text that parses to an infinity is not a NUMBER token.
C22_FiniteOnly ==
    TextLexed =>
        /\ \A i \in 1..Len(LexedTokens) :
              LexedTokens[i].token_type = "NUMBER" =>
                  LexedTokens[i].data.val[1].class = "finite"
        /\ IsInfText(source) => LexedTokens[1].token_type # "NUMBER"

\* the eight statement-header words and their token types
HeaderWord(text) ==
    CASE text = <<"m", "t", "l", "l", "i", "b">> -> "MTLLIB"
      [] text = <<"o">> -> "OBJECT"
      [] text = <<"v">> -> "VERTEX"
      [] text = <<"v", "n">> -> "NORMAL"
      [] text = <<"v", "t">> -> "TEXCOORD"
      [] text = <<"u", "s", "e", "m", "t", "l">> -> "USEMTL"
      [] text = <<"f">> -> "FACE"
      [] text = <<"s">> -> "ILLUM"
      [] OTHER -> "none"
HeaderTypes == {"MTLLIB", "OBJECT", "VERTEX", "NORMAL", "TEXCOORD", "USEMTL",
                "FACE", "ILLUM"}

\* C23: a run is a statement-header token exactly when its text is one of
\* mtllib, o, v, vn, vt, usemtl, f, s, with the type of that word; any other
\* run is a NUMBER, POLYGON or STRING token; and a COMMENT token comes from
\* the Comment state only, carrying the text that starts with '#'.
C23_Keywords ==
    TextLexed =>
        /\ IsRun(source) =>
              /\ Len(LexedTokens) = 1
              /\ HeaderWord(source) # "none" =>
                    LexedTokens[1].token_type = HeaderWord(source)
              /\ HeaderWord(source) = "none" =>
                    LexedTokens[1].token_type
                        \in {"NUMBER", "POLYGON", "STRING"}
        /\ \A i \in 1..Len(LexedTokens) :
              LexedTokens[i].token_type = "COMMENT" =>
                  /\ LexedTokens[i].data.tag = "String"
                  /\ Head(LexedTokens[i].data.val) = "#"

\* the fields of a text, split at each '/'
RECURSIVE FieldsOf(_)
FieldsOf(text) ==
    LET at == FirstIndex(text, {"/"}) IN
    IF at = 0 THEN <<text>>
    ELSE <<SubSeq(text, 1, at - 1)>>
             \o FieldsOf(SubSeq(text, at + 1, Len(text)))

\* the index a field names: 0 when empty or missing
FieldIndex(text, k) ==
    IF k > Len(FieldsOf(text)) \/ FieldsOf(text)[k] = <<>> THEN 0
    ELSE DecimalValue(FieldsOf(text)[k])

\* a run of digit fields separated by one or two '/'
IsReference(text) ==
    /\ \A i \in 1..Len(text) : text[i] \in Digits \cup {"/"}
    /\ Len(FieldsOf(text)) \in {2, 3}

\* C24: a run that is neither a keyword nor a number and is made of
\* unsigned-integer fields, each possibly empty, separated by at most two '/',
\* is a POLYGON token of (position, texcoord, normal) in source order; a run
\* with three or more '/' or a field that is not an integer is not a POLYGON.
C24_Polygon ==
    (TextLexed /\ IsRun(source)) =>
        /\ IsReference(source) =>
              /\ LexedTokens[1].token_type = "POLYGON"
              /\ LexedTokens[1].data
                    = TokenVertexPTN(FieldIndex(source, 1),
                                     FieldIndex(source, 2),
                                     FieldIndex(source, 3))
        /\ ~IsReference(source) => LexedTokens[1].token_type # "POLYGON"

\* C25: lex_tokens never fails: it returns a token list, without a panic, on
\* every byte sequence.
C25_NeverFails == lex_ret.kind # "Panic"

---------------------------------------------------------------------------
(* The parser's grammar, read from the tokens taken *)

\* the step takes a token; the token taken; the statement the step emits
TokenTaken == Len(tokens_read') = Len(tokens_read) + 1
Taken == tokens_read'[Len(tokens_read')]
EmitsNow == Len(parsed_statements') = Len(parsed_statements) + 1
EmittedNow == parsed_statements'[Len(parsed_statements')]

ValueTypes == {"NUMBER", "STRING", "POLYGON"}

\* C26: while no statement is in progress, a SEPARATOR or LINEBREAK token is
\* dropped with no statement and no change of the parser; a header token
\* opens a statement of its kind, expecting LINEBREAK after COMMENT and
\* SEPARATOR after any other; a NUMBER, STRING or POLYGON token is an error.
C26_HeaderStep ==
    (TokenTaken /\ IsNone(parser.statement_type)) =>
        /\ Taken.token_type \in {"SEPARATOR", "LINEBREAK"} =>
              /\ parser' = parser
              /\ parsed_statements' = parsed_statements
              /\ parse_ret' = Running
        /\ Taken.token_type \in StatementTypes =>
              /\ parser'.statement_type = Some(Taken.token_type)
              /\ parser'.next_expected_token =
                    IF Taken.token_type = "COMMENT" THEN "LINEBREAK"
                    ELSE "SEPARATOR"
              /\ parsed_statements' = parsed_statements
              /\ parse_ret' = Running
        /\ Taken.token_type \in ValueTypes => parse_ret'.kind = "Err"
C26_AwaitingHeader == [][C26_HeaderStep]_vars

\* a separator and a line break were dropped, then a comment was opened
C26_Witness ==
    /\ Len(tokens_read) = 3
    /\ tokens_read[1].token_type = "SEPARATOR"
    /\ tokens_read[2].token_type = "LINEBREAK"
    /\ tokens_read[3].token_type = "COMMENT"
    /\ parser.statement_type = Some("COMMENT")
    /\ parser.next_expected_token = "LINEBREAK"

\* header, n times (SEPARATOR, value), LINEBREAK
RECURSIVE Fields(_, _)
Fields(value_type, n) ==
    IF n = 0 THEN <<>>
    ELSE <<"SEPARATOR", value_type>> \o Fields(value_type, n - 1)
Shape(header, value_type, n) ==
    <<header>> \o Fields(value_type, n) \o <<"LINEBREAK">>

\* the tokens taken end with tokens of the types `shape`
EndsWith(tokens, shape) ==
    /\ Len(tokens) >= Len(shape)
    /\ \A j \in 1..Len(shape) :
          tokens[Len(tokens) - Len(shape) + j].token_type = shape[j]

\* the header token and the k-th value token of the 2n + 2 tokens taken last
HeaderOf(tokens, n) == tokens[Len(tokens) - (2 * n + 2) + 1]
ValueOf(tokens, n, k) == tokens[Len(tokens) - (2 * n + 2) + 1 + 2 * k]

NumberCount(kind) ==
    CASE kind \in {"VERTEX", "NORMAL"} -> 3
      [] kind = "TEXCOORD" -> 2
      [] kind = "ILLUM" -> 1
NumericTypes == {"VERTEX", "NORMAL", "TEXCOORD", "ILLUM"}

\* the payload of the n numbers taken last, in token order
NumberPayload(tokens, n) ==
    LET x(k) == ValueOf(tokens, n, k).data.val[1] IN
    CASE n = 3 -> DataNumber3D(<<x(1), x(2), x(3)>>)
      [] n = 2 -> DataNumber2D(<<x(1), x(2)>>)
      [] n = 1 -> DataNumber(x(1))

\* C27: a vertex, normal (N = 3), texcoord (N = 2) or illum (N = 1)
\* statement is emitted exactly when its header is followed by N times
\* (SEPARATOR, NUMBER) and then LINEBREAK, and its payload is the N numbers in
\* token order.
C27_NumericStep ==
    TokenTaken =>
        \A kind \in NumericTypes :
            LET n == NumberCount(kind) IN
            /\ (EmitsNow /\ EmittedNow.statement_type = kind)
                  <=> (parse_ret'.kind # "Err"
                         /\ EndsWith(tokens_read', Shape(kind, "NUMBER", n)))
            /\ (EmitsNow /\ EmittedNow.statement_type = kind) =>
                  EmittedNow =
                      Statement_from(kind, NumberPayload(tokens_read', n),
                          HeaderOf(tokens_read', n).line_number,
                          HeaderOf(tokens_read', n).line_position)
C27_Numeric == [][C27_NumericStep]_vars

\* "v 2 1 1" and a line break gave the vertex statement of (2, 1, 1)
C27_Witness ==
    /\ Len(parsed_statements) = 1
    /\ parsed_statements[1].statement_type = "VERTEX"
    /\ parsed_statements[1].data
          = DataNumber3D(<<F64("finite", <<2, 0>>), F64("finite", <<1, 0>>),
                           F64("finite", <<1, 0>>)>>)

\* C28: a face statement is emitted exactly when the FACE header is followed
\* by 3 times (SEPARATOR, POLYGON) and then LINEBREAK, and its payload is the
\* three POLYGON 3-tuples concatenated in token order, each in source order.
C28_FaceStep ==
    TokenTaken =>
        /\ (EmitsNow /\ EmittedNow.statement_type = "FACE")
              <=> (parse_ret'.kind # "Err"
                     /\ EndsWith(tokens_read', Shape("FACE", "POLYGON", 3)))
        /\ (EmitsNow /\ EmittedNow.statement_type = "FACE") =>
              EmittedNow =
                  Statement_from("FACE",
                      [tag |-> "FacePTN",
                       val |-> ValueOf(tokens_read', 3, 1).data.val
                                 \o ValueOf(tokens_read', 3, 2).data.val
                                 \o ValueOf(tokens_read', 3, 3).data.val],
                      HeaderOf(tokens_read', 3).line_number,
                      HeaderOf(tokens_read', 3).line_position)
C28_Face == [][C28_FaceStep]_vars

\* "f 1/2/3 1// 1/2/3" and a line break gave the face of those nine indices
C28_Witness ==
    /\ Len(parsed_statements) = 1
    /\ parsed_statements[1].statement_type = "FACE"
    /\ parsed_statements[1].data.val = <<1, 2, 3, 1, 0, 0, 1, 2, 3>>

SingleStringTypes == {"MTLLIB", "OBJECT", "USEMTL"}

\* C29: a mtllib, object or usemtl statement is emitted exactly when its
\* header is followed by SEPARATOR, STRING, LINEBREAK, with the text of the
\* STRING token as payload; a comment statement is emitted exactly when the
\* COMMENT header is followed at once by LINEBREAK, with the payload of the
\* header token as its text.
C29_StringStep ==
    TokenTaken =>
        /\ \A kind \in SingleStringTypes :
            /\ (EmitsNow /\ EmittedNow.statement_type = kind)
                  <=> (parse_ret'.kind # "Err"
                         /\ EndsWith(tokens_read', Shape(kind, "STRING", 1)))
            /\ (EmitsNow /\ EmittedNow.statement_type = kind) =>
                  EmittedNow =
                      Statement_from(kind,
                          [tag |-> "String",
                           val |-> <<ValueOf(tokens_read', 1, 1).data.val>>],
                          HeaderOf(tokens_read', 1).line_number,
                          HeaderOf(tokens_read', 1).line_position)
        /\ (EmitsNow /\ EmittedNow.statement_type = "COMMENT")
              <=> (parse_ret'.kind # "Err"
                     /\ EndsWith(tokens_read', Shape("COMMENT", "NUMBER", 0)))
        /\ (EmitsNow /\ EmittedNow.statement_type = "COMMENT") =>
              EmittedNow =
                  Statement_from("COMMENT",
                      IF HeaderOf(tokens_read', 0).data.tag = "String"
                      THEN [tag |-> "String",
                            val |-> <<HeaderOf(tokens_read', 0).data.val>>]
                      ELSE [tag |-> "None", val |-> <<>>],
                      HeaderOf(tokens_read', 0).line_number,
                      HeaderOf(tokens_read', 0).line_position)
C29_Strings == [][C29_StringStep]_vars

\* "#c", a line break, "o a" and a line break gave a comment and an object
C29_Witness ==
    /\ Len(parsed_statements) = 2
    /\ parsed_statements[1].statement_type = "COMMENT"
    /\ parsed_statements[1].data = DataString(<<"#", "c">>)
    /\ parsed_statements[2].statement_type = "OBJECT"
    /\ parsed_statements[2].data = DataString(<<"a">>)

\* the fields each kind of statement requires
Required(kind) ==
    CASE kind \in {"VERTEX", "NORMAL", "FACE"} -> 3
      [] kind = "TEXCOORD" -> 2
      [] kind \in {"ILLUM", "MTLLIB", "OBJECT", "USEMTL"} -> 1
      [] kind = "COMMENT" -> 0

\* the place of the header taken last, 0 if none; a statement is in progress
\* when no line break was taken since
LastHeader ==
    IF \E i \in 1..Len(tokens_read) :
          tokens_read[i].token_type \in StatementTypes
    THEN CHOOSE i \in 1..Len(tokens_read) :
             /\ tokens_read[i].token_type \in StatementTypes
             /\ \A j \in (i + 1)..Len(tokens_read) :
                   tokens_read[j].token_type \notin StatementTypes
    ELSE 0
InStatement ==
    /\ parse_ret = Running
    /\ LastHeader # 0
    /\ \A j \in LastHeader..Len(tokens_read) :
          tokens_read[j].token_type # "LINEBREAK"
FieldsRead ==
    Cardinality({j \in LastHeader..Len(tokens_read) :
                    tokens_read[j].token_type \in ValueTypes})

\* C30: in a statement of any kind, a LINEBREAK before the required number of
\* fields, or a further SEPARATOR or value token after them, makes
\* parse_tokens return an error, with no statement list; nothing is parsed
\* after an error.
C30_FieldCountStep ==
    /\ (TokenTaken /\ InStatement) =>
          LET kind == tokens_read[LastHeader].token_type IN
          /\ (Taken.token_type = "LINEBREAK" /\ FieldsRead < Required(kind))
                => parse_ret'.kind = "Err"
          /\ (Taken.token_type \in ValueTypes \cup {"SEPARATOR"}
                 /\ FieldsRead = Required(kind))
                => parse_ret'.kind = "Err"
    /\ parse_ret.kind = "Err" =>
          /\ parse_ret' = parse_ret
          /\ tokens_read' = tokens_read
          /\ parsed_statements' = <<>>
C30_FieldCount == [][C30_FieldCountStep]_vars

\* "o a", a line break, then "v 1" and a line break: the error, and the
\* object statement is not returned
C30_Witness ==
    /\ parse_ret.kind = "Err"
    /\ Len(tokens_read) = 8
    /\ tokens_read[1].token_type = "OBJECT"
    /\ tokens_read[4].token_type = "LINEBREAK"
    /\ tokens_read[5].token_type = "VERTEX"
    /\ tokens_read[7].token_type = "NUMBER"
    /\ tokens_read[8].token_type = "LINEBREAK"

\* the messages that name the token type found, alone or with the type that
\* was expected
Reports(found) ==
    {"Unexpected token: " \o found}
    \cup {"Unexpected token. Expected \"" \o expected \o "\" but found \""
              \o found \o "\"" : expected \in TokenTypes}

\* C31: an error raised in a statement of any kind, numeric ones included,
\* because the token is not of the expected type, reports the type of the
\* token that was found.
C31_ReportsTokenStep ==
    (TokenTaken /\ IsSome(parser.statement_type) /\ parse_ret'.kind = "Err")
        => parse_ret'.msg \in Reports(Taken.token_type)
C31_ReportsToken == [][C31_ReportsTokenStep]_vars

\* C32: an emitted statement carries the line and column of its own header,
\* and whenever the parser awaits a header, at the start and after every
\* emitted statement, both buffers are empty and the token count is 0, so a
\* statement is built from the tokens after its own header only.
C32_FreshStep ==
    /\ IsNone(parser'.statement_type) =>
          /\ parser'.data_buffer = <<>>
          /\ parser'.index_buffer = <<>>
          /\ parser'.parsed_token_count = 0
    /\ (TokenTaken /\ EmitsNow) =>
          /\ IsNone(parser'.statement_type)
          /\ EmittedNow.line_number = tokens_read[LastHeader].line_number
          /\ EmittedNow.line_position = tokens_read[LastHeader].line_position
          /\ EmittedNow.statement_type = tokens_read[LastHeader].token_type
          /\ parsed_statements'
                = Append(parsed_statements, EmittedNow)
C32_Fresh == [][C32_FreshStep]_vars

\* "s 1" and "s 2", each closed by a line break, gave the two statements of
\* one number each, and the parser awaits a header with empty buffers
C32_Witness ==
    /\ Len(parsed_statements) = 2
    /\ parsed_statements[1]
          = Statement_from("ILLUM", DataNumber(F64("finite", <<1, 0>>)), 1, 1)
    /\ parsed_statements[2]
          = Statement_from("ILLUM", DataNumber(F64("finite", <<2, 0>>)), 2, 5)
    /\ IsNone(parser.statement_type)
    /\ parser.data_buffer = <<>>

\* the header tokens taken while no statement was in progress: every header
\* token taken, since one taken inside a statement is an error
HeadersTaken ==
    Cardinality({i \in 1..Len(tokens_read) :
                    tokens_read[i].token_type \in StatementTypes})

\* C40: when parse_tokens returns Ok, it returns as many statements as header
\* tokens were taken: a list that ends inside a statement is not accepted
\* with that statement dropped.
C40_AllEmitted ==
    parse_ret.kind = "Ok" => Len(parse_ret.val) = HeadersTaken

---------------------------------------------------------------------------
(* The compiler's buffers and the object store, further properties *)

\* buffer `after` is buffer `before`, or it with one tuple appended
Grown(before, after) ==
    after = before
        \/ (Len(after) = Len(before) + 1
              /\ SubSeq(after, 1, Len(before)) = before)

\* C33: the position, normal and texcoord buffers only grow, over the whole
\* input: a VERTEX, NORMAL or TEXCOORD statement appends its tuple to its own
\* buffer and changes nothing else, and no other statement, OBJECT and FACE
\* included, changes any of the three.
C33_AppendOnlyStep ==
    /\ Grown(position_buffer, position_buffer')
    /\ Grown(normal_buffer, normal_buffer')
    /\ Grown(tex_coord_buffer, tex_coord_buffer')
    /\ (n_stmt' = n_stmt + 1 /\ ret'.kind = "Running") =>
          LET statement == Unwrap(stmt') IN
          /\ position_buffer' =
                IF statement.statement_type = "VERTEX"
                THEN Append(position_buffer, statement.data.val)
                ELSE position_buffer
          /\ normal_buffer' =
                IF statement.statement_type = "NORMAL"
                THEN Append(normal_buffer, statement.data.val)
                ELSE normal_buffer
          /\ tex_coord_buffer' =
                IF statement.statement_type = "TEXCOORD"
                THEN Append(tex_coord_buffer, statement.data.val)
                ELSE tex_coord_buffer
          /\ statement.statement_type \in {"VERTEX", "NORMAL", "TEXCOORD"}
                => UNCHANGED <<cur_obj, results>>
C33_AppendOnly == [][C33_AppendOnlyStep]_vars

\* one position, a face of the default object, an OBJECT statement, and a
\* face of that object resolved against the same position
C33_Witness ==
    /\ n_stmt = 4
    /\ ret.kind = "Running"
    /\ Len(position_buffer) = 1
    /\ Len(seen_objects) = 2
    /\ seen_objects[1].implicit
    /\ seen_objects[1].refs # <<>>
    /\ seen_objects[2].refs # <<>>
    /\ Len(results) = 1
    /\ IsSome(cur_obj)
    /\ Unwrap(cur_obj).vertex_buffer = results[1].vertex_buffer

\* C38: in a successful compile, the index buffer of each object holds three
\* entries per FACE statement of that object, and an object without a FACE
\* statement has empty vertex and index buffers.
C38_ThreePerFace ==
    ret.kind = "Ok" =>
        /\ Len(ret.val) = Len(seen_objects)
        /\ \A i \in 1..Len(ret.val) :
              /\ Len(ret.val[i].index_buffer) = Len(seen_objects[i].refs)
              /\ Len(ret.val[i].index_buffer) % 3 = 0
              /\ seen_objects[i].refs = <<>> =>
                    ret.val[i].vertex_buffer = <<>>

\* a face on one position gave an object of three index entries and one
\* vertex, and an object without faces follows it
C38_Witness ==
    /\ ret.kind = "Ok"
    /\ Len(ret.val) = 2
    /\ Len(ret.val[1].index_buffer) = 3
    /\ Len(ret.val[1].vertex_buffer) = 1
    /\ ret.val[2].index_buffer = <<>>

\* C39: compile never panics: it returns Ok or Err for every statement list.
C39_NoPanic == ret.kind \in {"Running", "Ok", "Err"}

\* C35: no two elements of an object's vertex buffer are equal.
C35_NoDuplicates ==
    \A i, j \in 1..Len(obj.vertex_buffer) :
        obj.vertex_buffer[i] = obj.vertex_buffer[j] => i = j

\* two vertices were added, then each of them again
C35_Witness ==
    /\ Len(obj.vertex_buffer) = 2
    /\ obj.index_buffer = <<0, 1, 0, 1>>

\* C36: an add_vertex that fails leaves name, format, vertex buffer and index
\* buffer as they were.
C36_FailureStep ==
    (n_calls' = n_calls + 1 /\ Unwrap(add_result').kind = "Err") => obj' = obj
C36_FailureKeeps == [][C36_FailureStep]_vars

\* a call failed on an object that holds two vertices
C36_Witness ==
    /\ LastAdd("Err")
    /\ Len(obj.vertex_buffer) = 2
    /\ Len(obj.index_buffer) = 3

\* the place of the first entry of the index buffer that names slot k
FirstRef(k) ==
    CHOOSE i \in 1..Len(obj.index_buffer) :
        /\ obj.index_buffer[i] = k
        /\ \A j \in 1..(i - 1) : obj.index_buffer[j] # k

\* C37: every slot of the vertex buffer is named by an entry of the index
\* buffer, and slot j is first named before slot j + 1.
C37_FirstRefsInOrder ==
    /\ {obj.index_buffer[i] : i \in 1..Len(obj.index_buffer)}
          = 0..(Len(obj.vertex_buffer) - 1)
    /\ \A k \in 0..(Len(obj.vertex_buffer) - 2) : FirstRef(k) < FirstRef(k + 1)

\* slot 0 was named twice before slot 1 was first named
C37_Witness ==
    /\ Len(obj.vertex_buffer) = 2
    /\ obj.index_buffer = <<0, 0, 1, 0>>

\* C34: the objects a compile call returns depend on the default name and on
\* the statement list of that call only: a call made before it on the same
\* Compiler, successful or failed, does not change its result.
C34_Independent ==
    IsSome(second_call) =>
        Unwrap(second_call).r
            = compile(from_default_name(DefaultName),
                      Unwrap(second_call).statements)

=============================================================================
